---- MODULE Spec2Model ----
(***************************************************************************)
(* A model of the ARCA retrieval layer: the Gemini credential rotator and  *)
(* its retrying embedding call (src/src/gemini_manager.py), the pipeline   *)
(* retry loop and report builder (src/src/agents.py), and the tenant       *)
(* scoped vector store wrapper (src/src/vector_db_search.py and the older  *)
(* revision kept in src/seed_defaults.py).                                 *)
(*                                                                         *)
(* Text is a sequence of one-character strings, offsets are 0-based as in  *)
(* the Python source, and a slice text[a:b] is Slice(text, a, b).          *)
(***************************************************************************)
EXTENDS Integers, Sequences, FiniteSets, TLC

VARIABLES
    env,                \* os.environ restricted to the 8 GEMINI_API_KEY* names
    km,                 \* _key_manager: "none", "ready", or "failed" (constructor raised)
    api_keys,           \* GeminiKeyManager.api_keys
    current_key_index,  \* GeminiKeyManager.current_key_index (0-based)
    configured_key,     \* the key last given to genai.configure (process wide)
    key_hist,           \* get_current_key() after construction and after each rotate_key:
                        \* the last len(api_keys) + 1 observations
    e_pc,               \* embed_content_with_retry: "idle", "loop", "returned", "raised"
    e_text,             \* its text argument
    e_arg,              \* its max_retries argument (None by default)
    e_max_retries,      \* its max_retries after the None default is resolved
    e_attempt,          \* its loop variable
    e_log,              \* one record per remote genai.embed_content call of this invocation
    e_exc,              \* the message of the exception its last remote call raised
    e_result,           \* the value it returned
    e_error,            \* the message of the exception it raised
    p_pc,               \* run_arca_pipeline: "idle", "loop", "process", "done"
    p_in,               \* its arguments
    p_attempt,          \* its loop variable
    risk_report,        \* task_audit.output.pydantic of the attempt that completed
    reco,               \* task_recommend.output.pydantic of the attempt that completed
    last_error,         \* the message of the last exception caught
    p_log,              \* one record per crew.kickoff of this invocation
    report,             \* the dict it returned
    collection,         \* the Chroma collections, by name: a sequence of entries each
    next_uuid,          \* the number of uuid4 values stored so far: the next fresh one
    a_last,             \* the add_document / force_seed call just made and its outcome
    s_last,             \* the search call just made, its backend queries and its outcome
    sp_pc,              \* split_text: "idle", "entered", "loop", "returned"
    sp_impl,            \* the revision of SimpleTextSplitter: "v3" or "seed"
    sp_text,            \* its text argument
    sp_size,            \* self.chunk_size
    sp_overlap,         \* self.chunk_overlap
    sp_start,           \* its local start
    sp_chunks,          \* its local chunks, and the list it returned
    sp_windows,         \* one record per iteration of its loop: start, end, chunk
    rid_calls,          \* the calls of regulation_id_for made: arguments and result
    b_pc,               \* the embedding function's __call__: "idle", "loop", "item", "returned"
    b_impl,             \* "manager": through embed_content_with_retry; "direct": genai itself
    b_input,            \* its input, a list of texts
    b_i,                \* the position in input of the item at hand (from 1)
    b_results,          \* its local results, and the value it returned
    b_outcomes,         \* for each item done, whether its embedding came ("ok") or failed
    r_pc,               \* per concurrent request, where its embed_content_with_retry is:
                        \* "idle", "call", "rotate", "store", "configure",
                        \* "returned", "raised"
    r_max,              \* per request, max_retries
    r_attempt,          \* per request, the loop variable
    r_idx,              \* per request, self.current_key_index as rotate_key read it
    r_start,            \* per request, the credential configured when it entered
    r_log,              \* per request, one record per remote call it made
    r_rot,              \* per request, the stores to current_key_index it made
    r_key,              \* per request, the credential configure_current_key read
    t_last              \* the last call of the retrieval tool: its inputs, the
                        \* searches it made and what it returned

km_vars    == <<env, km, api_keys, current_key_index, configured_key, key_hist>>
embed_vars == <<e_pc, e_text, e_arg, e_max_retries, e_attempt, e_log, e_exc,
               e_result, e_error>>
pipe_vars  == <<p_pc, p_in, p_attempt, risk_report, reco, last_error, p_log, report>>
store_vars == <<collection, next_uuid, a_last, s_last>>
split_vars == <<sp_pc, sp_impl, sp_text, sp_size, sp_overlap, sp_start, sp_chunks,
               sp_windows>>
rid_vars   == <<rid_calls>>
batch_vars == <<b_pc, b_impl, b_input, b_i, b_results, b_outcomes>>
race_vars  == <<r_pc, r_max, r_attempt, r_idx, r_start, r_log, r_rot, r_key>>
tool_vars  == <<t_last>>
vars       == <<km_vars, embed_vars, pipe_vars, store_vars, split_vars, rid_vars,
               batch_vars, race_vars, tool_vars>>

----------------------------------------------------------------------------
(* Bounds of the model. *)

EnvSlotsUsed == 2       \* only the first EnvSlotsUsed variables may be set
MaxRetriesArg == 4      \* the largest explicit max_retries argument
LongErrLen == 203       \* the length of the long error message
LongTextLen == 302      \* the length of the long regulation text
LongFieldLen == 802     \* the length of a long free-text field of the generation
MaxRawRisks == 6        \* the most risks the generation puts in its audit output
MaxToolRotations == 1   \* the most rotations the embedding calls of one kickoff make
MaxEntries == 2         \* the most entries the two collections hold together
MaxTopK == 2            \* the largest top_k of a search
LongDocTail == 20       \* the characters of the long document after its sentence break
MaxTextLen == 5         \* the longest text over the small alphabet given to split_text
MaxWindows == 8         \* the most loop iterations of one split_text call followed
MaxIdCalls == 2         \* the most calls of regulation_id_for compared
MaxBatch == 2           \* the most texts in one batch given to the embedding function
MaxRaceRetries == 3     \* the max_retries a concurrent request may pass instead of the default
LongSplitSize == 150    \* a chunk size above the boundary margin of 100
LongSplitOverlap == 20  \* the overlap used with it

(* An optional value (None or a value) is a sequence of length 0 or 1. *)
None == <<>>
Some(v) == <<v>>
IsNone(o) == Len(o) = 0

----------------------------------------------------------------------------
(* Text helpers: Python str operations on sequences of characters. *)

Min(a, b) == IF a < b THEN a ELSE b
Max(a, b) == IF a > b THEN a ELSE b

\* a slice bound as Python reads it: negative from the end, clamped to the text
Bound(i, n) == IF i < 0 THEN Max(i + n, 0) ELSE Min(i, n)

\* text[a:b]
Slice(text, a, b) == SubSeq(text, Bound(a, Len(text)) + 1, Bound(b, Len(text)))

\* text[:n]
Prefix(text, n) == Slice(text, 0, n)

\* c * n
Rep(c, n) == [i \in 1..n |-> c]

UpperCase == <<"A","B","C","D","E","F","G","H","I","J","K","L","M",
               "N","O","P","Q","R","S","T","U","V","W","X","Y","Z">>
LowerCase == <<"a","b","c","d","e","f","g","h","i","j","k","l","m",
               "n","o","p","q","r","s","t","u","v","w","x","y","z">>

LowerChar(c) ==
    IF \E i \in 1..26 : UpperCase[i] = c
    THEN LowerCase[CHOOSE i \in 1..26 : UpperCase[i] = c]
    ELSE c

\* str.lower()
Lower(text) == [i \in 1..Len(text) |-> LowerChar(text[i])]

\* sub in text
Contains(sub, text) ==
    \E i \in 1..(Len(text) - Len(sub) + 1) : SubSeq(text, i, i + Len(sub) - 1) = sub

Digit(n) == <<"0","1","2","3","4","5","6","7","8","9">>[n + 1]

\* str(n) for 0 <= n
RECURSIVE Str(_)
Str(n) == IF n < 10 THEN <<Digit(n)>> ELSE Str(n \div 10) \o <<Digit(n % 10)>>

\* CHUNK_SIZE and CHUNK_OVERLAP of src/src/vector_db_search.py, and those of
\* src/src/utils.py that src/seed_defaults.py imports
CHUNK_SIZE == 1000
CHUNK_OVERLAP == 200
SEED_CHUNK_SIZE == 400
SEED_CHUNK_OVERLAP == 50

\* the Chroma collection of VectorDB in src/src/vector_db_search.py, and the
\* one of the older revision of VectorDB in src/seed_defaults.py
CollectionV3 == "arca_policies_gemini_v3"
CollectionSeed == "arca_policies_gemini"
CollectionNames == {CollectionV3, CollectionSeed}

\* the requests that run at the same time in the process
Callers == {1, 2}

----------------------------------------------------------------------------
(* GeminiKeyManager, src/src/gemini_manager.py *)

NumEnvVars == 8

\* os.getenv gives None for an unset name and the value of a set one
KeyValues == {"", "kA", "kB"}
EnvOptions == {None} \cup {Some(k) : k \in KeyValues}
Envs == {e \in [1..NumEnvVars -> EnvOptions] :
            \A i \in (EnvSlotsUsed + 1)..NumEnvVars : e[i] = None}

\* "if key": None and the empty string are dropped
Truthy(o) == Len(o) = 1 /\ o[1] # ""

RECURSIVE FilterKeys(_, _)
FilterKeys(e, i) ==
    IF i > NumEnvVars THEN <<>>
    ELSE (IF Truthy(e[i]) THEN <<e[i][1]>> ELSE <<>>) \o FilterKeys(e, i + 1)

\* [key for key in self.api_keys if key]
LoadKeys(e) == FilterKeys(e, 1)

\* get_current_key
get_current_key == api_keys[current_key_index + 1]

NextKeyIndexNoWrap(i, n) == IF i + 1 < n THEN i + 1 ELSE i

\* (self.current_key_index + 1) % len(self.api_keys)
NextKeyIndex(i, n) == (i + 1) % n

\* the index after k rotations from index i of a pool of n
RECURSIVE IndexAfter(_, _, _)
IndexAfter(i, n, k) == IF k = 0 THEN i ELSE NextKeyIndex(IndexAfter(i, n, k - 1), n)

\* the last n elements of s
LastN(s, n) == IF Len(s) <= n THEN s ELSE SubSeq(s, Len(s) - n + 1, Len(s))

\* the observations kept of the current credential
Observe(keys) == LastN(key_hist \o keys, Len(api_keys) + 1)

\* k calls of rotate_key in a row
RotateTimes(k) ==
    LET at(j) == IndexAfter(current_key_index, Len(api_keys), j) IN
    /\ current_key_index' = at(k)
    /\ configured_key' = IF k = 0 THEN configured_key ELSE api_keys[at(k) + 1]
    /\ key_hist' = Observe([j \in 1..k |-> api_keys[at(j) + 1]])

RotateKeyEffectNoWrap ==
    LET i == current_key_index + 1 IN
    /\ current_key_index' = i
    /\ configured_key' = IF i < Len(api_keys) THEN api_keys[i + 1] ELSE configured_key
    /\ key_hist' = Observe(<<IF i < Len(api_keys) THEN api_keys[i + 1] ELSE "IndexError">>)

RotateKeyEffectNoConfigure ==
    /\ current_key_index' = NextKeyIndex(current_key_index, Len(api_keys))
    /\ configured_key' = configured_key
    /\ key_hist' = Observe(<<api_keys[NextKeyIndex(current_key_index, Len(api_keys)) + 1]>>)

\* rotate_key: advance the index, then configure_current_key
RotateKeyEffect == RotateTimes(1)

\* get_key_manager with no manager yet: GeminiKeyManager.__init__
Construct ==
    /\ km \in {"none", "failed"}
    /\ LET keys == LoadKeys(env) IN
       IF keys = <<>>
       THEN /\ km' = "failed"
            /\ UNCHANGED <<api_keys, current_key_index, configured_key, key_hist>>
       ELSE /\ km' = "ready"
            /\ api_keys' = keys
            /\ current_key_index' = 0
            /\ configured_key' = keys[1]
            /\ key_hist' = <<keys[1]>>
    /\ UNCHANGED <<env, embed_vars, pipe_vars, store_vars, split_vars, rid_vars, batch_vars, race_vars, tool_vars>>

\* a caller's rotate_key
RotateKey ==
    /\ km = "ready"
    /\ e_pc # "loop"
    /\ RotateKeyEffect
    /\ UNCHANGED <<env, km, api_keys, embed_vars, pipe_vars, store_vars, split_vars, rid_vars, batch_vars, race_vars, tool_vars>>

----------------------------------------------------------------------------
(* GeminiKeyManager.embed_content_with_retry, src/src/gemini_manager.py *)

Msg429      == <<"E","r","r","o","r"," ","4","2","9">>
MsgQuota    == <<"Q","u","o","t","a"," ","e","x","c","e","e","d","e","d">>
MsgRate     == <<"R","A","T","E"," ","L","I","M","I","T">>
MsgBadInput == <<"4","0","0"," ","b","a","d"," ","i","n","p","u","t">>

\* what str(e) of a failed genai.embed_content call may be
EmbedErrors == {Msg429, MsgQuota, MsgRate, MsgBadInput}

EmbedTexts == {<<"d","o","c">>, <<"q">>}

\* response["embedding"] of a successful call for this content
Embedding(text) == [content |-> text]

IsRateLimitCaseSensitive(msg) ==
    \/ Contains(<<"4","2","9">>, msg)
    \/ Contains(<<"q","u","o","t","a">>, msg)
    \/ Contains(<<"r","a","t","e"," ","l","i","m","i","t">>, msg)

\* "429" in error_msg or "quota" in error_msg or "rate limit" in error_msg
IsRateLimit(msg) ==
    LET error_msg == Lower(msg) IN
    \/ Contains(<<"4","2","9">>, error_msg)
    \/ Contains(<<"q","u","o","t","a">>, error_msg)
    \/ Contains(<<"r","a","t","e"," ","l","i","m","i","t">>, error_msg)

\* f"All {len(self.api_keys)} API keys hit rate limits"
ExhaustedMsg(n) ==
    <<"A","l","l"," ">> \o Str(n) \o
    <<" ","A","P","I"," ","k","e","y","s"," ","h","i","t"," ",
      "r","a","t","e"," ","l","i","m","i","t","s">>

\* "Failed to embed content after all retries"
FailedMsg ==
    <<"F","a","i","l","e","d"," ","t","o"," ","e","m","b","e","d"," ",
      "c","o","n","t","e","n","t"," ","a","f","t","e","r"," ","a","l","l"," ",
      "r","e","t","r","i","e","s">>

ResolveMaxRetriesOneMore(arg) == IF IsNone(arg) THEN Len(api_keys) + 1 ELSE arg[1]

\* if max_retries is None: max_retries = len(self.api_keys)
ResolveMaxRetries(arg) == IF IsNone(arg) THEN Len(api_keys) ELSE arg[1]

\* the call is entered: the default is resolved and the loop starts, or, with
\* an empty range, control falls through to the raise after the loop
EmbedEnter(text, arg) ==
    LET max_retries == ResolveMaxRetries(arg) IN
    /\ e_text' = text
    /\ e_arg' = arg
    /\ e_max_retries' = max_retries
    /\ e_attempt' = 0
    /\ e_log' = <<>>
    /\ e_exc' = None
    /\ e_result' = None
    /\ IF max_retries > 0
       THEN e_pc' = "loop" /\ e_error' = None
       ELSE e_pc' = "raised" /\ e_error' = Some(FailedMsg)

\* a caller other than the embedding function calls embed_content_with_retry
EmbedStart ==
    /\ km = "ready"
    /\ e_pc # "loop"
    /\ \E text \in EmbedTexts, arg \in {None} \cup {Some(n) : n \in 0..MaxRetriesArg} :
        EmbedEnter(text, arg)
    /\ UNCHANGED <<km_vars, pipe_vars, store_vars, split_vars, rid_vars, batch_vars, race_vars, tool_vars>>

LogCall(kind) ==
    Append(e_log, [key |-> configured_key, index |-> current_key_index,
                   attempt |-> e_attempt, kind |-> kind])

EmbedCallOkRotates ==
    /\ e_pc = "loop"
    /\ e_log' = LogCall("ok")
    /\ e_pc' = "returned"
    /\ e_result' = Some(Embedding(e_text))
    /\ RotateKeyEffect
    /\ UNCHANGED <<e_text, e_arg, e_max_retries, e_attempt, e_exc, e_error>>
    /\ UNCHANGED <<env, km, api_keys, pipe_vars, store_vars, split_vars, rid_vars, batch_vars, race_vars, tool_vars>>

\* one iteration of the loop: the remote call succeeds and the value is returned
EmbedCallOk ==
    /\ e_pc = "loop"
    /\ e_log' = LogCall("ok")
    /\ e_pc' = "returned"
    /\ e_result' = Some(Embedding(e_text))
    /\ UNCHANGED <<e_text, e_arg, e_max_retries, e_attempt, e_exc, e_error>>
    /\ UNCHANGED <<km_vars, pipe_vars, store_vars, split_vars, rid_vars, batch_vars, race_vars, tool_vars>>

EmbedCallFailsRetryOther ==
    /\ e_pc = "loop"
    /\ \E msg \in EmbedErrors :
        /\ e_exc' = Some(msg)
        /\ e_log' = LogCall(IF IsRateLimit(msg) THEN "quota" ELSE "other")
        /\ IF e_attempt < e_max_retries - 1
           THEN /\ RotateKeyEffect
                /\ e_attempt' = e_attempt + 1
                /\ UNCHANGED <<e_pc, e_result, e_error>>
           ELSE /\ e_pc' = "raised"
                /\ e_error' = Some(ExhaustedMsg(Len(api_keys)))
                /\ UNCHANGED <<e_attempt, e_result, current_key_index,
                               configured_key, key_hist>>
    /\ UNCHANGED <<e_text, e_arg, e_max_retries>>
    /\ UNCHANGED <<env, km, api_keys, pipe_vars, store_vars, split_vars, rid_vars, batch_vars, race_vars, tool_vars>>

EmbedCallFailsRotateOncePerKey ==
    /\ e_pc = "loop"
    /\ \E msg \in EmbedErrors :
        /\ e_exc' = Some(msg)
        /\ IF IsRateLimit(msg)
           THEN IF e_attempt < e_max_retries - 1
                THEN /\ e_log' = LogCall("quota")
                     /\ IF e_attempt < Len(api_keys) - 1
                        THEN RotateKeyEffect
                        ELSE UNCHANGED <<current_key_index, configured_key, key_hist>>
                     /\ e_attempt' = e_attempt + 1
                     /\ UNCHANGED <<e_pc, e_result, e_error>>
                ELSE /\ e_log' = LogCall("quota")
                     /\ e_pc' = "raised"
                     /\ e_error' = Some(ExhaustedMsg(Len(api_keys)))
                     /\ UNCHANGED <<e_attempt, e_result, current_key_index,
                                    configured_key, key_hist>>
           ELSE /\ e_log' = LogCall("other")
                /\ e_pc' = "raised"
                /\ e_error' = Some(msg)
                /\ UNCHANGED <<e_attempt, e_result, current_key_index,
                               configured_key, key_hist>>
    /\ UNCHANGED <<e_text, e_arg, e_max_retries>>
    /\ UNCHANGED <<env, km, api_keys, pipe_vars, store_vars, split_vars, rid_vars, batch_vars, race_vars, tool_vars>>

\* one iteration of the loop: the remote call raises
EmbedCallFails ==
    /\ e_pc = "loop"
    /\ \E msg \in EmbedErrors :
        /\ e_exc' = Some(msg)
        /\ IF IsRateLimit(msg)
           THEN IF e_attempt < e_max_retries - 1
                THEN \* self.rotate_key(); continue
                     /\ e_log' = LogCall("quota")
                     /\ RotateKeyEffect
                     /\ e_attempt' = e_attempt + 1
                     /\ UNCHANGED <<e_pc, e_result, e_error>>
                ELSE \* raise Exception("All ... API keys hit rate limits")
                     /\ e_log' = LogCall("quota")
                     /\ e_pc' = "raised"
                     /\ e_error' = Some(ExhaustedMsg(Len(api_keys)))
                     /\ UNCHANGED <<e_attempt, e_result, current_key_index,
                                    configured_key, key_hist>>
           ELSE \* raise e
                /\ e_log' = LogCall("other")
                /\ e_pc' = "raised"
                /\ e_error' = Some(msg)
                /\ UNCHANGED <<e_attempt, e_result, current_key_index,
                               configured_key, key_hist>>
    /\ UNCHANGED <<e_text, e_arg, e_max_retries>>
    /\ UNCHANGED <<env, km, api_keys, pipe_vars, store_vars, split_vars, rid_vars, batch_vars, race_vars, tool_vars>>

----------------------------------------------------------------------------
(* The rotator and the embedding call, one caller at a time. *)

InitIdle ==
    /\ e_pc = "idle" /\ e_text = <<>> /\ e_arg = None /\ e_max_retries = 0
    /\ e_attempt = 0 /\ e_log = <<>> /\ e_exc = None /\ e_result = None
    /\ e_error = None
    /\ p_pc = "idle" /\ p_in = None /\ p_attempt = 0
    /\ risk_report = None /\ reco = None /\ last_error = None
    /\ p_log = <<>> /\ report = None
    /\ collection = [c \in CollectionNames |-> <<>>]
    /\ next_uuid = 0 /\ a_last = None /\ s_last = None
    /\ rid_calls = <<>>
    /\ b_pc = "idle" /\ b_impl = "manager" /\ b_input = <<>> /\ b_i = 1
    /\ b_results = <<>> /\ b_outcomes = <<>>
    /\ r_pc = [c \in Callers |-> "idle"]
    /\ r_max = [c \in Callers |-> 0]
    /\ r_attempt = [c \in Callers |-> 0]
    /\ r_idx = [c \in Callers |-> 0]
    /\ r_start = [c \in Callers |-> None]
    /\ r_log = [c \in Callers |-> <<>>]
    /\ r_rot = [c \in Callers |-> 0]
    /\ r_key = [c \in Callers |-> "unconfigured"]
    /\ t_last = None

\* no split_text call is under way
SplitIdle ==
    /\ sp_pc = "idle" /\ sp_impl = "v3" /\ sp_text = <<>> /\ sp_size = CHUNK_SIZE
    /\ sp_overlap = CHUNK_OVERLAP /\ sp_start = 0 /\ sp_chunks = <<>>
    /\ sp_windows = <<>>

InitRotator ==
    /\ env \in Envs
    /\ km = "none"
    /\ api_keys = <<>>
    /\ current_key_index = 0
    /\ configured_key = "unconfigured"
    /\ key_hist = <<>>
    /\ InitIdle
    /\ SplitIdle

NextRotator ==
    \/ Construct
    \/ RotateKey
    \/ EmbedStart
    \/ EmbedCallOk
    \/ EmbedCallFails

SpecRotator == InitRotator /\ [][NextRotator]_vars

----------------------------------------------------------------------------
(* run_arca_pipeline, src/src/agents.py *)

MaxPipelineRetries == 3
ErrorCap == 200
RuleExcerptCap == 300
ExcerptCap == 800
ActionCap == 500
MaxRisks == 5
RiskMaxLength == 5

MsgResource == <<"R","E","S","O","U","R","C","E","_","E","X","H","A","U","S","T","E","D">>
MsgLong     == Rep("x", LongErrLen)

\* what str(e) of an exception raised inside the try block may be
KickoffErrors == {Msg429, MsgQuota, MsgResource, MsgRate, MsgLong}

ShortText == <<"r","u","l","e">>
LongText  == Rep("r", LongTextLen)
LongField == Rep("f", LongFieldLen)

PipelineInputs ==
    {[new_regulation_text |-> ShortText, user_id |-> "acme", date_of_law |-> None],
     [new_regulation_text |-> LongText, user_id |-> "acme",
      date_of_law |-> Some(<<"2","0","2","5">>)]}

\* RiskItem values the generation may produce: every field is a plain str
RiskSamples ==
    << [policy_id |-> "p1", severity |-> "HIGH",
        divergence_summary |-> <<"g","a","p">>,
        conflicting_policy_excerpt |-> <<"o","l","d">>,
        new_rule_excerpt |-> <<"n","e","w">>,
        recommended_action |-> <<"f","i","x">>],
       [policy_id |-> "p2", severity |-> "MEDIUM",
        divergence_summary |-> LongField,
        conflicting_policy_excerpt |-> LongField,
        new_rule_excerpt |-> LongField,
        recommended_action |-> LongField],
       [policy_id |-> "p3", severity |-> "Critical",
        divergence_summary |-> <<"g","a","p">>,
        conflicting_policy_excerpt |-> <<>>,
        new_rule_excerpt |-> <<"n","e","w">>,
        recommended_action |-> <<>>] >>

\* the risks arrays the generation may answer the audit task with
RawAuditLists ==
    {[i \in 1..n |-> RiskSamples[(i % 3) + 1]] : n \in 0..MaxRawRisks}

\* RiskAnalysisReport validation: risks has max_length 5; an answer that does
\* not validate leaves task_audit.output.pydantic None
ParseRiskReport(raw) ==
    IF Len(raw) <= RiskMaxLength THEN Some([risks |-> raw]) ELSE None

\* task_recommend.output.pydantic: a FinalRecommendation or None
RecoOutputs ==
    {None, Some([recommendation |-> LongField, compliance_score |-> "NEEDS_UPDATES"])}

IsQuotaErrorOrRateLimit(msg) ==
    LET error_msg == Lower(msg) IN
    \/ Contains(<<"4","2","9">>, error_msg)
    \/ Contains(<<"r","e","s","o","u","r","c","e","_",
                  "e","x","h","a","u","s","t","e","d">>, error_msg)
    \/ Contains(<<"q","u","o","t","a">>, error_msg)
    \/ Contains(<<"r","a","t","e"," ","l","i","m","i","t">>, error_msg)

\* "429" in error_msg or "resource_exhausted" in error_msg or "quota" in error_msg
IsQuotaError(msg) ==
    LET error_msg == Lower(msg) IN
    \/ Contains(<<"4","2","9">>, error_msg)
    \/ Contains(<<"r","e","s","o","u","r","c","e","_",
                  "e","x","h","a","u","s","t","e","d">>, error_msg)
    \/ Contains(<<"q","u","o","t","a">>, error_msg)

\* the literal texts of the fallback items and of the default recommendation
RetryAction ==
    <<"R","e","t","r","y"," ","a","n","a","l","y","s","i","s"," ","o","r",
      " ","c","o","n","t","a","c","t"," ","s","u","p","p","o","r","t">>
NoGapsSummary ==
    <<"N","o"," ","s","i","g","n","i","f","i","c","a","n","t"," ","c","o",
      "m","p","l","i","a","n","c","e"," ","g","a","p","s"," ","i","d","e",
      "n","t","i","f","i","e","d">>
AlignedExcerpt ==
    <<"E","x","i","s","t","i","n","g"," ","p","o","l","i","c","i","e","s",
      " ","a","l","i","g","n"," ","w","i","t","h"," ","r","e","g","u","l",
      "a","t","i","o","n">>
ReviewAction ==
    <<"C","o","n","d","u","c","t"," ","p","e","r","i","o","d","i","c"," ",
      "r","e","v","i","e","w"," ","t","o"," ","e","n","s","u","r","e"," ",
      "c","o","n","t","i","n","u","e","d"," ","c","o","m","p","l","i","a",
      "n","c","e">>
AnalysisCompleted ==
    <<"A","n","a","l","y","s","i","s"," ","c","o","m","p","l","e","t","e",
      "d",".">>

AnalysisFailed ==
    <<"A","n","a","l","y","s","i","s"," ","f","a","i","l","e","d",":"," ">>

\* the RiskItem of the system error fallback
SystemErrorRisk(error, text) ==
    [policy_id |-> "system_error",
     severity |-> "HIGH",
     divergence_summary |-> AnalysisFailed \o Prefix(error, ErrorCap),
     conflicting_policy_excerpt |-> <<"N","/","A">>,
     new_rule_excerpt |-> Prefix(text, RuleExcerptCap),
     recommended_action |-> RetryAction]

\* the RiskItem of the fully compliant fallback
CompliantRisk(text) ==
    [policy_id |-> "compliant",
     severity |-> "LOW",
     divergence_summary |-> NoGapsSummary,
     conflicting_policy_excerpt |-> AlignedExcerpt,
     new_rule_excerpt |-> Prefix(text, RuleExcerptCap),
     recommended_action |-> ReviewAction]

FinalRisksNoFallback(rr, err, text) ==
    LET risks == IF ~IsNone(rr) THEN rr[1].risks ELSE <<>> IN
    IF IsNone(rr) /\ ~IsNone(err)
    THEN <<SystemErrorRisk(err[1], text)>>
    ELSE Prefix(risks, MaxRisks)

\* "Process Results": the risks of the report, from risk_report and last_error
FinalRisks(rr, err, text) ==
    LET risks == IF ~IsNone(rr) THEN rr[1].risks ELSE <<>> IN
    Prefix(IF IsNone(rr) /\ ~IsNone(err)
           THEN <<SystemErrorRisk(err[1], text)>>
           ELSE IF Len(risks) = 0
                THEN <<CompliantRisk(text)>>
                ELSE risks,
           MaxRisks)

\* one dict of the report's "risks"
RiskDict(r) ==
    [policy_id |-> r.policy_id,
     severity |-> r.severity,
     divergence_summary |-> r.divergence_summary,
     conflicting_policy_excerpt |-> Prefix(r.conflicting_policy_excerpt, ExcerptCap),
     new_rule_excerpt |-> Prefix(r.new_rule_excerpt, ExcerptCap),
     recommended_action |-> Prefix(r.recommended_action, ActionCap)]

\* regulation_id_for: the digest of (date_of_law or "") + "|" + text, the
\* digest being kept as the text it is taken of
regulation_id_for(text, date_of_law) ==
    [sha256 |-> (IF IsNone(date_of_law) THEN <<>> ELSE date_of_law[1]) \o <<"|">> \o text]

\* today_iso
today_iso == "today"

\* the dict run_arca_pipeline returns
BuildReport(in, rr, rc, err) ==
    LET risks == FinalRisks(rr, err, in.new_regulation_text) IN
    [regulation_id |-> regulation_id_for(in.new_regulation_text, in.date_of_law),
     date_processed |-> today_iso,
     total_risks_flagged |-> Len(risks),
     risks |-> [i \in 1..Len(risks) |-> RiskDict(risks[i])],
     recommendation |-> IF ~IsNone(rc) THEN rc[1].recommendation
                        ELSE AnalysisCompleted,
     compliance_score |-> IF ~IsNone(rc) THEN rc[1].compliance_score ELSE "UNKNOWN"]

\* run_arca_pipeline is entered: get_key_manager, the locals, the loop starts
PipelineStart ==
    /\ km = "ready"
    /\ p_pc \in {"idle", "done"}
    /\ \E in \in PipelineInputs : p_in' = Some(in)
    /\ p_pc' = "loop"
    /\ p_attempt' = 0
    /\ risk_report' = None
    /\ reco' = None
    /\ last_error' = None
    /\ p_log' = <<>>
    /\ report' = None
    /\ UNCHANGED <<km_vars, embed_vars, store_vars, split_vars, rid_vars, batch_vars, race_vars, tool_vars>>

LogKickoff(kind, k) ==
    Append(p_log, [key |-> get_current_key, index |-> current_key_index,
                   attempt |-> p_attempt, kind |-> kind,
                   end_index |-> IndexAfter(current_key_index, Len(api_keys), k)])

PipelineAttemptOkNoBreak ==
    /\ p_pc = "loop"
    /\ \E raw \in RawAuditLists, rc \in RecoOutputs, k \in 0..MaxToolRotations :
        /\ risk_report' = ParseRiskReport(raw)
        /\ reco' = rc
        /\ RotateTimes(k)
        /\ p_log' = LogKickoff("ok", k)
    /\ p_attempt' = p_attempt + 1
    /\ p_pc' = IF p_attempt + 1 < MaxPipelineRetries THEN "loop" ELSE "process"
    /\ UNCHANGED <<p_in, last_error, report>>
    /\ UNCHANGED <<env, km, api_keys, embed_vars, store_vars, split_vars, rid_vars, batch_vars, race_vars, tool_vars>>

\* one attempt: crew.kickoff completes and the loop is left
PipelineAttemptOk ==
    /\ p_pc = "loop"
    /\ \E raw \in RawAuditLists, rc \in RecoOutputs, k \in 0..MaxToolRotations :
        /\ risk_report' = ParseRiskReport(raw)
        /\ reco' = rc
        /\ RotateTimes(k)
        /\ p_log' = LogKickoff("ok", k)
    /\ p_pc' = "process"
    /\ UNCHANGED <<p_in, p_attempt, last_error, report>>
    /\ UNCHANGED <<env, km, api_keys, embed_vars, store_vars, split_vars, rid_vars, batch_vars, race_vars, tool_vars>>

PipelineAttemptFailsReraise ==
    /\ p_pc = "loop"
    /\ \E msg \in KickoffErrors, k \in 0..MaxToolRotations :
        /\ last_error' = Some(msg)
        /\ IF IsQuotaError(msg)
           THEN /\ p_log' = LogKickoff("quota", k)
                /\ RotateTimes(k + 1)
                /\ p_attempt' = p_attempt + 1
                /\ p_pc' = IF p_attempt + 1 < MaxPipelineRetries THEN "loop" ELSE "process"
           ELSE /\ p_log' = LogKickoff("other", k)
                /\ RotateTimes(k)
                /\ IF p_attempt < MaxPipelineRetries - 1
                   THEN p_attempt' = p_attempt + 1 /\ p_pc' = "loop"
                   ELSE p_attempt' = p_attempt /\ p_pc' = "raised"
    /\ UNCHANGED <<p_in, risk_report, reco, report>>
    /\ UNCHANGED <<env, km, api_keys, embed_vars, store_vars, split_vars, rid_vars, batch_vars, race_vars, tool_vars>>

\* one attempt: an exception is caught; a quota error rotates the key, and
\* the loop goes on while attempts are left
PipelineAttemptFails ==
    /\ p_pc = "loop"
    /\ \E msg \in KickoffErrors, k \in 0..MaxToolRotations :
        /\ last_error' = Some(msg)
        /\ IF IsQuotaError(msg)
           THEN \* key_manager.rotate_key(); the range decides whether to go on
                /\ p_log' = LogKickoff("quota", k)
                /\ RotateTimes(k + 1)
                /\ p_attempt' = p_attempt + 1
                /\ p_pc' = IF p_attempt + 1 < MaxPipelineRetries THEN "loop" ELSE "process"
           ELSE /\ p_log' = LogKickoff("other", k)
                /\ RotateTimes(k)
                /\ IF p_attempt < MaxPipelineRetries - 1
                   THEN \* retry
                        p_attempt' = p_attempt + 1 /\ p_pc' = "loop"
                   ELSE \* break
                        p_attempt' = p_attempt /\ p_pc' = "process"
    /\ UNCHANGED <<p_in, risk_report, reco, report>>
    /\ UNCHANGED <<env, km, api_keys, embed_vars, store_vars, split_vars, rid_vars, batch_vars, race_vars, tool_vars>>

\* "Process Results" and the return
PipelineReport ==
    /\ p_pc = "process"
    /\ report' = Some(BuildReport(p_in[1], risk_report, reco, last_error))
    /\ p_pc' = "done"
    /\ UNCHANGED <<p_in, p_attempt, risk_report, reco, last_error, p_log>>
    /\ UNCHANGED <<km_vars, embed_vars, store_vars, split_vars, rid_vars, batch_vars, race_vars, tool_vars>>

\* a well-formed request: the environment holds at least one credential
PipelineEnvs ==
    {e \in Envs : /\ e[1] = Some("kA")
                  /\ e[2] \in {None, Some("kB")}
                  /\ \A i \in 3..NumEnvVars : e[i] = None}

InitPipeline ==
    /\ env \in PipelineEnvs
    /\ km = "none"
    /\ api_keys = <<>>
    /\ current_key_index = 0
    /\ configured_key = "unconfigured"
    /\ key_hist = <<>>
    /\ InitIdle
    /\ SplitIdle

NextPipeline ==
    \/ Construct
    \/ PipelineStart
    \/ PipelineAttemptOk
    \/ PipelineAttemptFails
    \/ PipelineReport

SpecPipeline == InitPipeline /\ [][NextPipeline]_vars

\* crew.kickoff returns or raises, and the statements after the loop run:
\* an invocation that can take a step takes it
SpecPipelineLive ==
    /\ SpecPipeline
    /\ WF_vars(PipelineAttemptOk \/ PipelineAttemptFails)
    /\ WF_vars(PipelineReport)

----------------------------------------------------------------------------
(* SimpleTextSplitter.split_text: src/src/vector_db_search.py and the older *)
(* revision in src/seed_defaults.py                                         *)

Whitespace == {" ", "\n", "\t", "\r"}

StripLeadingOnly(text) ==
    IF \A i \in 1..Len(text) : text[i] \in Whitespace
    THEN <<>>
    ELSE LET first == CHOOSE i \in 1..Len(text) :
                          /\ text[i] \notin Whitespace
                          /\ \A j \in 1..(i - 1) : text[j] \in Whitespace
         IN SubSeq(text, first, Len(text))

\* str.strip()
Strip(text) ==
    IF \A i \in 1..Len(text) : text[i] \in Whitespace
    THEN <<>>
    ELSE LET first == CHOOSE i \in 1..Len(text) :
                          /\ text[i] \notin Whitespace
                          /\ \A j \in 1..(i - 1) : text[j] \in Whitespace
             last  == CHOOSE i \in 1..Len(text) :
                          /\ text[i] \notin Whitespace
                          /\ \A j \in (i + 1)..Len(text) : text[j] \in Whitespace
         IN SubSeq(text, first, last)

\* text.rfind(sep, start, end): the highest offset of sep inside text[start:end], or -1
RFind(text, sep, start, end) ==
    LET a == Bound(start, Len(text))
        b == Bound(end, Len(text))
        at == {i \in a..(b - Len(sep)) : SubSeq(text, i + 1, i + Len(sep)) = sep}
    IN IF at = {} THEN -1 ELSE CHOOSE i \in at : \A j \in at : j <= i

ParaBreak == <<"\n", "\n">>
SentenceSeps == << <<".", " ">>, <<"!", " ">>, <<"?", " ">>,
                   <<".", "\n">>, <<"!", "\n">>, <<"?", "\n">> >>

BoundaryMargin == 100

\* the for loop over the separators: best_break
RECURSIVE BestBreak(_, _, _, _, _)
BestBreak(text, start, end, k, best) ==
    IF k > Len(SentenceSeps) THEN best
    ELSE LET pos == RFind(text, SentenceSeps[k], start, end) IN
         BestBreak(text, start, end, k + 1,
                   IF pos > start + BoundaryMargin
                   THEN Max(best, pos + Len(SentenceSeps[k])) ELSE best)

WindowEndSearchAhead(text, chunk_size, start) ==
    LET end == Min(start + chunk_size, Len(text)) IN
    IF end < Len(text)
    THEN LET last_para == RFind(text, ParaBreak, start, Len(text)) IN
         IF last_para > start + BoundaryMargin
         THEN last_para + 2
         ELSE LET best_break == BestBreak(text, start, Len(text), 1, -1) IN
              IF best_break > start + BoundaryMargin THEN best_break ELSE end
    ELSE end

\* the end of the window that starts at start (src/src/vector_db_search.py)
WindowEnd(text, chunk_size, start) ==
    LET end == Min(start + chunk_size, Len(text)) IN
    IF end < Len(text)
    THEN LET last_para == RFind(text, ParaBreak, start, end) IN
         IF last_para > start + BoundaryMargin
         THEN last_para + 2
         ELSE LET best_break == BestBreak(text, start, end, 1, -1) IN
              IF best_break > start + BoundaryMargin THEN best_break ELSE end
    ELSE end

NextStartOverlapOnly(start, end, chunk_size, chunk_overlap) == end - chunk_overlap

NextStartNoOverlap(start, end, chunk_size, chunk_overlap) ==
    Max(end, start + chunk_size \div 2)

\* next_start = max(end - self.chunk_overlap, start + self.chunk_size // 2)
NextStart(start, end, chunk_size, chunk_overlap) ==
    Max(end - chunk_overlap, start + chunk_size \div 2)

\* the while loop of split_text (src/src/vector_db_search.py)
RECURSIVE SplitLoop(_, _, _, _, _)
SplitLoop(text, chunk_size, chunk_overlap, start, chunks) ==
    IF ~(start < Len(text)) THEN chunks
    ELSE LET end == WindowEnd(text, chunk_size, start)
             chunk == Strip(Slice(text, start, end))
             out == IF chunk # <<>> THEN Append(chunks, chunk) ELSE chunks
         IN IF end >= Len(text) THEN out
            ELSE SplitLoop(text, chunk_size, chunk_overlap,
                           NextStart(start, end, chunk_size, chunk_overlap), out)

\* SimpleTextSplitter.split_text of src/src/vector_db_search.py
split_text(text, chunk_size, chunk_overlap) ==
    IF text = <<>> THEN <<>> ELSE SplitLoop(text, chunk_size, chunk_overlap, 0, <<>>)

\* the for loop over the separators of the older revision: the first separator found
RECURSIVE FirstSentenceEnd(_, _, _, _)
FirstSentenceEnd(text, start, end, k) ==
    IF k > Len(SentenceSeps) THEN end
    ELSE LET last_sent == RFind(text, SentenceSeps[k], start, end) IN
         IF last_sent > start THEN last_sent + Len(SentenceSeps[k])
         ELSE FirstSentenceEnd(text, start, end, k + 1)

\* the end of the window that starts at start (src/seed_defaults.py)
SeedWindowEnd(text, chunk_size, start) ==
    LET end == Min(start + chunk_size, Len(text)) IN
    IF end < Len(text)
    THEN LET last_para == RFind(text, ParaBreak, start, end) IN
         IF last_para > start THEN last_para + 2
         ELSE FirstSentenceEnd(text, start, end, 1)
    ELSE end

\* start = end - self.chunk_overlap
SeedNextStart(end, chunk_overlap) == end - chunk_overlap

\* the while loop of split_text (src/seed_defaults.py). The loop's state is
\* start alone: when a start comes back the loop never ends, and the result
\* says so.
RECURSIVE SeedSplitLoop(_, _, _, _, _, _)
SeedSplitLoop(text, chunk_size, chunk_overlap, start, chunks, seen) ==
    IF ~(start < Len(text)) THEN [chunks |-> chunks, ends |-> TRUE]
    ELSE IF start \in seen THEN [chunks |-> chunks, ends |-> FALSE]
    ELSE LET end == SeedWindowEnd(text, chunk_size, start)
             chunk == Strip(Slice(text, start, end))
             out == IF chunk # <<>> THEN Append(chunks, chunk) ELSE chunks
         IN IF end >= Len(text) THEN [chunks |-> out, ends |-> TRUE]
            ELSE SeedSplitLoop(text, chunk_size, chunk_overlap,
                               SeedNextStart(end, chunk_overlap), out,
                               seen \cup {start})

\* SimpleTextSplitter.split_text of src/seed_defaults.py
seed_split_text(text, chunk_size, chunk_overlap) ==
    IF text = <<>> THEN [chunks |-> <<>>, ends |-> TRUE]
    ELSE SeedSplitLoop(text, chunk_size, chunk_overlap, 0, <<>>, {})

(* split_text one loop iteration at a time, on every short text over a small *)
(* alphabet and on texts long enough for the margin of 100 to matter         *)

SplitAlphabet == {"a", ".", " ", "\n"}
ShortSplitTexts == UNION {[1..n -> SplitAlphabet] : n \in 0..MaxTextLen}
ChunkSizes == {3, 4}
ShortSplitConfigs ==
    UNION {{[size |-> c, overlap |-> o] : o \in 0..(c - 1)} : c \in ChunkSizes}

\* a sentence end past the margin, a paragraph end past the margin, a
\* sentence end before the margin, one text that fits a window, a text whose
\* second window holds white space only, and a sentence end past the window
LongSplitTexts ==
    { Rep("a", BoundaryMargin + 10) \o <<".", " ">> \o Rep("b", 60),
      Rep("a", BoundaryMargin + 5) \o <<"\n", "\n">> \o Rep("b", 60),
      Rep("a", 50) \o <<".", " ">> \o Rep("b", BoundaryMargin + 20),
      <<" ">> \o Rep("a", BoundaryMargin) \o <<"\n">>,
      Rep("a", LongSplitSize) \o Rep(" ", 2 * LongSplitSize),
      Rep("a", LongSplitSize + 5) \o <<".", " ">> \o Rep("b", 10) }

SplitImpls == {"v3", "seed"}

\* a text with an early sentence end, for the chunk size and overlap of
\* src/src/utils.py
EarlyBreakText == Rep("a", BoundaryMargin + 10) \o <<".", " ">> \o Rep("b", SEED_CHUNK_SIZE)

\* documents of 1200 characters: one without any boundary, one with full
\* stops but no whitespace, one with a sentence boundary 112 characters in,
\* one of blanks only
ScenarioDocLen == 3 * SEED_CHUNK_SIZE
ScenarioDocs ==
    { Rep("a", ScenarioDocLen),
      [i \in 1..ScenarioDocLen |-> IF i % 7 = 0 THEN "." ELSE "a"],
      Rep("a", BoundaryMargin + 10) \o <<".", " ">>
          \o Rep("b", ScenarioDocLen - BoundaryMargin - 12),
      Rep(" ", ScenarioDocLen) }

SplitInputs ==
    ([impl : SplitImpls, text : ShortSplitTexts, config : ShortSplitConfigs])
    \cup [impl : SplitImpls, text : ScenarioDocs,
          config : {[size |-> SEED_CHUNK_SIZE, overlap |-> SEED_CHUNK_OVERLAP]}]
    \cup [impl : SplitImpls, text : LongSplitTexts,
          config : {[size |-> LongSplitSize, overlap |-> LongSplitOverlap]}]
    \cup [impl : SplitImpls, text : {EarlyBreakText},
          config : {[size |-> SEED_CHUNK_SIZE, overlap |-> SEED_CHUNK_OVERLAP]}]

\* SimpleTextSplitter(chunk_size, chunk_overlap).split_text(text) is called
InitSplit ==
    /\ \E in \in SplitInputs :
        /\ sp_impl = in.impl
        /\ sp_text = in.text
        /\ sp_size = in.config.size
        /\ sp_overlap = in.config.overlap
    /\ sp_pc = "entered"
    /\ sp_start = 0
    /\ sp_chunks = <<>>
    /\ sp_windows = <<>>
    /\ env = [i \in 1..NumEnvVars |-> None]
    /\ km = "none"
    /\ api_keys = <<>>
    /\ current_key_index = 0
    /\ configured_key = "unconfigured"
    /\ key_hist = <<>>
    /\ InitIdle

\* if not text: return []; otherwise chunks = [], start = 0 and the loop
SplitEnter ==
    /\ sp_pc = "entered"
    /\ sp_pc' = IF sp_text = <<>> THEN "returned" ELSE "loop"
    /\ sp_start' = 0
    /\ sp_chunks' = <<>>
    /\ UNCHANGED <<sp_impl, sp_text, sp_size, sp_overlap, sp_windows>>
    /\ UNCHANGED <<km_vars, embed_vars, pipe_vars, store_vars, rid_vars, batch_vars, race_vars, tool_vars>>

\* one evaluation of the while condition and, when it holds, one iteration
SplitIteration(end, next_start) ==
    IF ~(sp_start < Len(sp_text))
    THEN /\ sp_pc' = "returned"
         /\ UNCHANGED <<sp_start, sp_chunks, sp_windows>>
    ELSE LET chunk == Strip(Slice(sp_text, sp_start, end)) IN
         /\ sp_windows' = Append(sp_windows,
                                 [start |-> sp_start, end |-> end, chunk |-> chunk])
         /\ sp_chunks' = IF chunk # <<>> THEN Append(sp_chunks, chunk) ELSE sp_chunks
         /\ IF end >= Len(sp_text)
            THEN sp_pc' = "returned" /\ sp_start' = sp_start
            ELSE sp_pc' = "loop" /\ sp_start' = next_start

\* the loop of src/src/vector_db_search.py
SplitStep ==
    /\ sp_pc = "loop"
    /\ sp_impl = "v3"
    /\ Len(sp_windows) < MaxWindows
    /\ LET end == WindowEnd(sp_text, sp_size, sp_start) IN
       SplitIteration(end, NextStart(sp_start, end, sp_size, sp_overlap))
    /\ UNCHANGED <<sp_impl, sp_text, sp_size, sp_overlap>>
    /\ UNCHANGED <<km_vars, embed_vars, pipe_vars, store_vars, rid_vars, batch_vars, race_vars, tool_vars>>

\* the loop of src/seed_defaults.py
SeedSplitStep ==
    /\ sp_pc = "loop"
    /\ sp_impl = "seed"
    /\ Len(sp_windows) < MaxWindows
    /\ LET end == SeedWindowEnd(sp_text, sp_size, sp_start) IN
       SplitIteration(end, SeedNextStart(end, sp_overlap))
    /\ UNCHANGED <<sp_impl, sp_text, sp_size, sp_overlap>>
    /\ UNCHANGED <<km_vars, embed_vars, pipe_vars, store_vars, rid_vars, batch_vars, race_vars, tool_vars>>

NextSplit ==
    \/ SplitEnter
    \/ SplitStep
    \/ SeedSplitStep

SpecSplit == InitSplit /\ [][NextSplit]_vars

(* regulation_id_for, src/src/utils.py, called with what /analyze_regulation *)
(* passes on: a text that is not empty and any date_of_law form value        *)

RegulationTexts == { <<"x">>, <<"b", "|", "x">>, <<"y">> }
LawDates == { None, Some(<<>>), Some(<<"a">>), Some(<<"a", "|", "b">>),
              Some(<<"2", "0", "2", "5">>) }

\* one call of regulation_id_for
RegulationId ==
    /\ Len(rid_calls) < MaxIdCalls
    /\ \E text \in RegulationTexts, date_of_law \in LawDates :
        rid_calls' = Append(rid_calls,
                            [text |-> text, date_of_law |-> date_of_law,
                             id |-> regulation_id_for(text, date_of_law)])
    /\ UNCHANGED <<km_vars, embed_vars, pipe_vars, store_vars, split_vars, batch_vars, race_vars, tool_vars>>

InitRegId ==
    /\ env = [i \in 1..NumEnvVars |-> None]
    /\ km = "none"
    /\ api_keys = <<>>
    /\ current_key_index = 0
    /\ configured_key = "unconfigured"
    /\ key_hist = <<>>
    /\ InitIdle
    /\ SplitIdle

NextRegId ==
    \/ RegulationId

SpecRegId == InitRegId /\ [][NextRegId]_vars

----------------------------------------------------------------------------
(* The embedding functions given to Chroma: GeminiEmbeddingFunction of      *)
(* src/src/vector_db_search.py, which embeds through the key manager, and   *)
(* LightweightGeminiEmbeddingFunction of src/seed_defaults.py, which calls  *)
(* genai.embed_content itself                                               *)

EmbeddingDim == 768

\* [0.0] * 768
ZeroVector == [i \in 1..EmbeddingDim |-> 0]

BatchInputs == UNION {[1..n -> EmbedTexts] : n \in 0..MaxBatch}

\* __call__(input): "if not input: return []", otherwise results = [] and the loop
BatchStart ==
    /\ b_pc \in {"idle", "returned"}
    /\ e_pc # "loop"
    /\ \E impl \in {"manager", "direct"}, input \in BatchInputs :
        /\ impl = "manager" => km = "ready"
        /\ b_impl' = impl
        /\ b_input' = input
        /\ b_pc' = IF input = <<>> THEN "returned" ELSE "loop"
    /\ b_i' = 1
    /\ b_results' = <<>>
    /\ b_outcomes' = <<>>
    /\ UNCHANGED <<km_vars, embed_vars, pipe_vars, store_vars, split_vars, rid_vars, race_vars, tool_vars>>

\* the next item is handed to self.key_manager.embed_content_with_retry
BatchItemCall ==
    /\ b_pc = "loop"
    /\ b_impl = "manager"
    /\ EmbedEnter(b_input[b_i], None)
    /\ b_pc' = "item"
    /\ UNCHANGED <<b_impl, b_input, b_i, b_results, b_outcomes>>
    /\ UNCHANGED <<km_vars, pipe_vars, store_vars, split_vars, rid_vars, race_vars, tool_vars>>

BatchCollectSkipFailed(ok, embedding) ==
    /\ b_results' = IF ok THEN Append(b_results, embedding) ELSE b_results
    /\ b_outcomes' = Append(b_outcomes, IF ok THEN "ok" ELSE "failed")
    /\ b_i' = b_i + 1
    /\ b_pc' = IF b_i = Len(b_input) THEN "returned" ELSE "loop"
    /\ UNCHANGED <<b_impl, b_input>>

\* results.append(embedding), or in the handler results.append([0.0] * 768);
\* then the next item, or after the last one the return of results
BatchCollect(ok, embedding) ==
    /\ b_results' = Append(b_results, IF ok THEN embedding ELSE ZeroVector)
    /\ b_outcomes' = Append(b_outcomes, IF ok THEN "ok" ELSE "failed")
    /\ b_i' = b_i + 1
    /\ b_pc' = IF b_i = Len(b_input) THEN "returned" ELSE "loop"
    /\ UNCHANGED <<b_impl, b_input>>

\* embed_content_with_retry has returned or raised for the item
BatchItemDone ==
    /\ b_pc = "item"
    /\ e_pc \in {"returned", "raised"}
    /\ BatchCollect(e_pc = "returned",
                    IF e_pc = "returned" THEN e_result[1] ELSE ZeroVector)
    /\ UNCHANGED <<km_vars, embed_vars, pipe_vars, store_vars, split_vars, rid_vars, race_vars, tool_vars>>

\* the item is embedded by genai.embed_content itself, which answers or raises
BatchItemDirect ==
    /\ b_pc = "loop"
    /\ b_impl = "direct"
    /\ \E ok \in BOOLEAN : BatchCollect(ok, Embedding(b_input[b_i]))
    /\ UNCHANGED <<km_vars, embed_vars, pipe_vars, store_vars, split_vars, rid_vars, race_vars, tool_vars>>

InitBatch ==
    /\ env \in PipelineEnvs
    /\ km = "none"
    /\ api_keys = <<>>
    /\ current_key_index = 0
    /\ configured_key = "unconfigured"
    /\ key_hist = <<>>
    /\ InitIdle
    /\ SplitIdle

NextBatch ==
    \/ Construct
    \/ BatchStart
    \/ BatchItemCall
    \/ EmbedCallOk
    \/ EmbedCallFails
    \/ BatchItemDone
    \/ BatchItemDirect

SpecBatch == InitBatch /\ [][NextBatch]_vars

----------------------------------------------------------------------------
(* Two requests in embed_content_with_retry at the same time, on the one    *)
(* GeminiKeyManager of the process (get_key_manager). A request may be      *)
(* suspended between any two of its accesses to the manager and to the      *)
(* client configuration: rotate_key is a read of current_key_index, a store *)
(* to it and configure_current_key, which reads the credential at the index *)
(* and hands it to genai.configure, with no lock around them.               *)

\* the request enters embed_content_with_retry and resolves max_retries
RaceStart(c) ==
    /\ km = "ready"
    /\ r_pc[c] = "idle"
    /\ \E arg \in {None, Some(MaxRaceRetries)} :
        r_max' = [r_max EXCEPT ![c] = ResolveMaxRetries(arg)]
    /\ r_pc' = [r_pc EXCEPT ![c] = "call"]
    /\ r_attempt' = [r_attempt EXCEPT ![c] = 0]
    /\ r_start' = [r_start EXCEPT ![c] = Some(configured_key)]
    /\ r_log' = [r_log EXCEPT ![c] = <<>>]
    /\ UNCHANGED <<r_idx, r_rot, r_key>>
    /\ UNCHANGED <<km_vars, embed_vars, pipe_vars, store_vars, split_vars, rid_vars,
                   batch_vars, tool_vars>>

\* genai.embed_content with the credential the client is configured with: it
\* answers, or raises; a quota failure short of the last attempt goes on to
\* rotate_key
RaceCall(c) ==
    /\ r_pc[c] = "call"
    /\ \E outcome \in {None} \cup {Some(msg) : msg \in EmbedErrors} :
        LET kind == IF IsNone(outcome) THEN "ok"
                    ELSE IF IsRateLimit(outcome[1]) THEN "quota" ELSE "other"
        IN /\ r_log' = [r_log EXCEPT ![c] =
                           Append(@, [key |-> configured_key,
                                      attempt |-> r_attempt[c], kind |-> kind])]
           /\ r_pc' = [r_pc EXCEPT ![c] =
                          IF kind = "ok" THEN "returned"
                          ELSE IF kind = "quota" /\ r_attempt[c] < r_max[c] - 1
                               THEN "rotate"
                               ELSE "raised"]
    /\ UNCHANGED <<r_max, r_attempt, r_idx, r_start, r_rot, r_key>>
    /\ UNCHANGED <<km_vars, embed_vars, pipe_vars, store_vars, split_vars, rid_vars,
                   batch_vars, tool_vars>>

\* rotate_key: self.current_key_index is read
RaceRotateRead(c) ==
    /\ r_pc[c] = "rotate"
    /\ r_idx' = [r_idx EXCEPT ![c] = current_key_index]
    /\ r_pc' = [r_pc EXCEPT ![c] = "store"]
    /\ UNCHANGED <<r_max, r_attempt, r_start, r_log, r_rot, r_key>>
    /\ UNCHANGED <<km_vars, embed_vars, pipe_vars, store_vars, split_vars, rid_vars,
                   batch_vars, tool_vars>>

\* rotate_key: (value read + 1) % len(self.api_keys) is stored
RaceRotateStore(c) ==
    /\ r_pc[c] = "store"
    /\ current_key_index' = NextKeyIndex(r_idx[c], Len(api_keys))
    /\ r_rot' = [r_rot EXCEPT ![c] = @ + 1]
    /\ r_pc' = [r_pc EXCEPT ![c] = "configure"]
    /\ UNCHANGED <<r_max, r_attempt, r_idx, r_start, r_log, r_key>>
    /\ UNCHANGED <<env, km, api_keys, configured_key, key_hist>>
    /\ UNCHANGED <<embed_vars, pipe_vars, store_vars, split_vars, rid_vars, batch_vars, tool_vars>>

\* configure_current_key: current_key = self.api_keys[self.current_key_index]
\* with the index as it is now
RaceConfigureRead(c) ==
    /\ r_pc[c] = "configure"
    /\ r_key' = [r_key EXCEPT ![c] = api_keys[current_key_index + 1]]
    /\ r_pc' = [r_pc EXCEPT ![c] = "apply"]
    /\ UNCHANGED <<r_max, r_attempt, r_idx, r_start, r_log, r_rot>>
    /\ UNCHANGED <<km_vars, embed_vars, pipe_vars, store_vars, split_vars, rid_vars,
                   batch_vars, tool_vars>>

\* configure_current_key: genai.configure(api_key=current_key); rotate_key
\* returns, then the sleep and the next iteration of the loop
RaceConfigure(c) ==
    /\ r_pc[c] = "apply"
    /\ configured_key' = r_key[c]
    /\ key_hist' = Observe(<<r_key[c]>>)
    /\ r_attempt' = [r_attempt EXCEPT ![c] = @ + 1]
    /\ r_pc' = [r_pc EXCEPT ![c] = "call"]
    /\ UNCHANGED <<r_max, r_idx, r_start, r_log, r_rot, r_key>>
    /\ UNCHANGED <<env, km, api_keys, current_key_index>>
    /\ UNCHANGED <<embed_vars, pipe_vars, store_vars, split_vars, rid_vars, batch_vars, tool_vars>>

InitRace ==
    /\ env \in PipelineEnvs
    /\ km = "none"
    /\ api_keys = <<>>
    /\ current_key_index = 0
    /\ configured_key = "unconfigured"
    /\ key_hist = <<>>
    /\ InitIdle
    /\ SplitIdle

NextRace ==
    \/ Construct
    \/ \E c \in Callers : RaceStart(c)
    \/ \E c \in Callers : RaceCall(c)
    \/ \E c \in Callers : RaceRotateRead(c)
    \/ \E c \in Callers : RaceRotateStore(c)
    \/ \E c \in Callers : RaceConfigureRead(c)
    \/ \E c \in Callers : RaceConfigure(c)

SpecRace == InitRace /\ [][NextRace]_vars

----------------------------------------------------------------------------
(* VectorDB: src/src/vector_db_search.py, src/seed_defaults.py, and the     *)
(* direct seeding of src/fix_and_seed.py                                    *)


DefaultTenant == "default"
Tenants == {DefaultTenant, "acme", "globex"}
Filenames == {"policy.md"}

BlankDoc == <<" ", "\n">>
ShortDoc == <<" ", "d", "a", "t", "a", " ">>
LongDoc  == Rep("a", SEED_CHUNK_SIZE - LongDocTail) \o <<".", " ">> \o Rep("b", LongDocTail)
DocTexts == {BlankDoc, ShortDoc, LongDoc}

\* self.text_splitter.split_text(text) for each document, with the chunk size
\* and overlap either revision constructs its splitter with
Splits == [text \in DocTexts |-> split_text(text, CHUNK_SIZE, CHUNK_OVERLAP)]
SeedSplits == [text \in DocTexts |->
                  seed_split_text(text, SEED_CHUNK_SIZE, SEED_CHUNK_OVERLAP)]

\* f"{user_id}-{uuid.uuid4()}", the uuid being the n-th fresh value
ChunkId(user_id, n) == <<user_id, "-", n>>

\* the entries collection.add stores for the chunks: one per chunk
NewEntries(chunks, filename, user_id) ==
    [i \in 1..Len(chunks) |->
        [id |-> ChunkId(user_id, next_uuid + i - 1),
         document |-> chunks[i],
         metadata |-> [source |-> filename, user_id |-> user_id]]]

\* the entries of the two collections together
Stored == Len(collection[CollectionSeed]) + Len(collection[CollectionV3])

\* VectorDB.add_document of src/src/vector_db_search.py: the body is "pass"
AddDocument ==
    /\ \E text \in DocTexts, filename \in Filenames, user_id \in Tenants :
        a_last' = Some([op |-> "add_document", collection |-> CollectionV3,
                        text |-> text, filename |-> filename, user_id |-> user_id,
                        outcome |-> "returned"])
    /\ s_last' = None
    /\ UNCHANGED <<collection, next_uuid>>
    /\ UNCHANGED <<km_vars, embed_vars, pipe_vars, split_vars, rid_vars, batch_vars, race_vars, tool_vars>>

\* VectorDB.add_document of src/seed_defaults.py. collection.add refuses an
\* empty batch and may fail in the backend; either error reaches the caller.
AddDocumentSeed ==
    /\ \E text \in DocTexts :
        LET split == SeedSplits[text] IN
        \E filename \in Filenames, user_id \in Tenants, fails \in BOOLEAN :
        LET chunks == split.chunks
            call == [op |-> "add_document", collection |-> CollectionSeed,
                     text |-> text, filename |-> filename, user_id |-> user_id]
        IN IF ~split.ends
           THEN /\ a_last' = Some(call @@ [outcome |-> "hangs"])
                /\ UNCHANGED <<collection, next_uuid>>
           ELSE IF fails \/ chunks = <<>>
           THEN /\ a_last' = Some(call @@ [outcome |-> "raised"])
                /\ UNCHANGED <<collection, next_uuid>>
           ELSE /\ Stored + Len(chunks) <= MaxEntries
                /\ collection' = [collection EXCEPT ![CollectionSeed] =
                                    @ \o NewEntries(chunks, filename, user_id)]
                /\ next_uuid' = next_uuid + Len(chunks)
                /\ a_last' = Some(call @@ [outcome |-> "returned"])
    /\ s_last' = None
    /\ UNCHANGED <<km_vars, embed_vars, pipe_vars, split_vars, rid_vars, batch_vars, race_vars, tool_vars>>

\* force_seed of src/fix_and_seed.py, one policy file: blank files and files
\* without chunks are skipped, the chunks go straight to db.collection.add
\* under the default tenant, and a failure of the add is printed
ForceSeed ==
    /\ \E text \in DocTexts :
        LET chunks == Splits[text] IN
        \E filename \in Filenames, fails \in BOOLEAN :
        LET call == [op |-> "force_seed", collection |-> CollectionV3,
                     text |-> text, filename |-> filename, user_id |-> DefaultTenant]
        IN IF Strip(text) = <<>> \/ Len(chunks) = 0
           THEN /\ a_last' = Some(call @@ [outcome |-> "skipped"])
                /\ UNCHANGED <<collection, next_uuid>>
           ELSE IF fails
           THEN /\ a_last' = Some(call @@ [outcome |-> "failed"])
                /\ UNCHANGED <<collection, next_uuid>>
           ELSE /\ Stored + Len(chunks) <= MaxEntries
                /\ collection' = [collection EXCEPT ![CollectionV3] =
                                    @ \o NewEntries(chunks, filename, DefaultTenant)]
                /\ next_uuid' = next_uuid + Len(chunks)
                /\ a_last' = Some(call @@ [outcome |-> "returned"])
    /\ s_last' = None
    /\ UNCHANGED <<km_vars, embed_vars, pipe_vars, split_vars, rid_vars, batch_vars, race_vars, tool_vars>>

Queries == {"data retention", "security"}
Reverse(seq) == [i \in 1..Len(seq) |-> seq[Len(seq) + 1 - i]]

\* the order in which the store ranks its entries for a query text
Rank(query, entries) == IF query = "security" THEN Reverse(entries) ELSE entries

\* collection.query(query_texts=[query], n_results=top_k,
\*                  where={"user_id": {"$eq": user_id}})
Query(entries, query, top_k, user_id) ==
    LET hits == Prefix(Rank(query, SelectSeq(entries,
                                LAMBDA e : e.metadata.user_id = user_id)), top_k)
    IN [ids |-> <<[i \in 1..Len(hits) |-> hits[i].id]>>,
        documents |-> <<[i \in 1..Len(hits) |-> hits[i].document]>>]

ZipCrossed(ids, docs) ==
    [i \in 1..Min(Len(ids), Len(docs)) |-> <<ids[i], docs[Min(Len(ids), Len(docs)) + 1 - i]>>]

\* list(zip(ids, docs))
Zip(ids, docs) == [i \in 1..Min(Len(ids), Len(docs)) |-> <<ids[i], docs[i]>>]

NeedsFallbackNever(docs, user_id) == FALSE
NeedsFallbackAnyResult(docs, user_id) == user_id # DefaultTenant
NeedsFallbackAnyTenant(docs, user_id) == docs = <<>>

\* if not docs and user_id != "default"
NeedsFallback(docs, user_id) == docs = <<>> /\ user_id # DefaultTenant

QueryLog(user_id, ok, n) == [where |-> user_id, ok |-> ok, n |-> n]

\* the statements of search after the tenant query has answered
SearchAfterFirst(call, entries, fails2) ==
    LET first == Query(entries, call.query, call.top_k, call.user_id)
        docs1 == first.documents[1]
        log1 == <<QueryLog(call.user_id, TRUE, Len(docs1))>>
    IN IF NeedsFallback(docs1, call.user_id)
       THEN IF fails2
            THEN call @@ [queries |-> Append(log1, QueryLog(DefaultTenant, FALSE, 0)),
                          outcome |-> "raised", result |-> <<>>]
            ELSE LET second == Query(entries, call.query, call.top_k, DefaultTenant)
                     docs2 == second.documents[1]
                 IN call @@ [queries |-> Append(log1, QueryLog(DefaultTenant, TRUE,
                                                               Len(docs2))),
                             outcome |-> "returned",
                             result |-> IF docs2 = <<>> THEN <<>>
                                        ELSE Zip(second.ids[1], docs2)]
       ELSE call @@ [queries |-> log1, outcome |-> "returned",
                     result |-> IF docs1 = <<>> THEN <<>>
                                ELSE Zip(first.ids[1], docs1)]

SearchInputs == [query : Queries, user_id : Tenants, top_k : 1..MaxTopK]

\* VectorDB.search of src/src/vector_db_search.py: a failure of the tenant
\* query is caught and answered with []
Search ==
    /\ \E in \in SearchInputs, fails1 \in BOOLEAN, fails2 \in BOOLEAN :
        LET call == [op |-> "search", collection |-> CollectionV3] @@ in IN
        s_last' = Some(IF fails1
                       THEN call @@ [queries |-> <<QueryLog(in.user_id, FALSE, 0)>>,
                                     outcome |-> "returned", result |-> <<>>]
                       ELSE SearchAfterFirst(call, collection[CollectionV3], fails2))
    /\ a_last' = None
    /\ UNCHANGED <<collection, next_uuid>>
    /\ UNCHANGED <<km_vars, embed_vars, pipe_vars, split_vars, rid_vars, batch_vars, race_vars, tool_vars>>

\* VectorDB.search of src/seed_defaults.py: no handler around the tenant query
SearchSeed ==
    /\ \E in \in SearchInputs, fails1 \in BOOLEAN, fails2 \in BOOLEAN :
        LET call == [op |-> "search", collection |-> CollectionSeed] @@ in IN
        s_last' = Some(IF fails1
                       THEN call @@ [queries |-> <<QueryLog(in.user_id, FALSE, 0)>>,
                                     outcome |-> "raised", result |-> <<>>]
                       ELSE SearchAfterFirst(call, collection[CollectionSeed], fails2))
    /\ a_last' = None
    /\ UNCHANGED <<collection, next_uuid>>
    /\ UNCHANGED <<km_vars, embed_vars, pipe_vars, split_vars, rid_vars, batch_vars, race_vars, tool_vars>>

InitStore ==
    /\ env \in PipelineEnvs
    /\ \A i \in 2..NumEnvVars : env[i] = None
    /\ km = "none"
    /\ api_keys = <<>>
    /\ current_key_index = 0
    /\ configured_key = "unconfigured"
    /\ key_hist = <<>>
    /\ InitIdle
    /\ SplitIdle

NextStore ==
    \/ AddDocument
    \/ AddDocumentSeed
    \/ ForceSeed
    \/ Search
    \/ SearchSeed

SpecStore == InitStore /\ [][NextStore]_vars

----------------------------------------------------------------------------
(* VectorDBSearchTool._run, src/src/agents.py: the retrieval tool of the    *)
(* research agent, on the collection of src/src/vector_db_search.py as      *)
(* force_seed of src/fix_and_seed.py fills it                               *)

ToolTopK == 10
FingerprintLen == 150
MaxUnique == 3
ContentCap == 700

\* the most policy chunks the collection holds when the tool runs: one more
\* than the tool returns
MaxPolicies == MaxUnique + 1

\* policy files: two that agree on their first 150 characters up to case and
\* surrounding whitespace and differ afterwards, and three unrelated ones
PolicyA1 == Rep("P", FingerprintLen - 1) \o <<" ", "o", "n", "e">>
PolicyA2 == Rep("p", FingerprintLen - 1) \o <<"\n", "t", "w", "o">>
PolicyB == <<"b", "e", "t", "a">>
PolicyC == <<"g", "a", "m", "m", "a">>
PolicyD == <<"d", "e", "l", "t", "a">>
PolicyDocs == {BlankDoc, PolicyA1, PolicyA2, PolicyB, PolicyC, PolicyD}

\* db.text_splitter.split_text(content) for each policy file
PolicySplits == [text \in PolicyDocs |-> split_text(text, CHUNK_SIZE, CHUNK_OVERLAP)]

\* force_seed of src/fix_and_seed.py, one file of data/policies: a blank file
\* or one without chunks is skipped, a failure of the add is printed, and
\* otherwise the chunks are stored under the default tenant
ForceSeedPolicies ==
    /\ \E text \in PolicyDocs :
        LET chunks == PolicySplits[text] IN
        \E filename \in Filenames, fails \in BOOLEAN :
        IF Strip(text) = <<>> \/ Len(chunks) = 0
        THEN UNCHANGED <<collection, next_uuid>>
        ELSE IF fails
        THEN UNCHANGED <<collection, next_uuid>>
        ELSE /\ Stored + Len(chunks) <= MaxPolicies
             /\ collection' = [collection EXCEPT ![CollectionV3] =
                                 @ \o NewEntries(chunks, filename, DefaultTenant)]
             /\ next_uuid' = next_uuid + Len(chunks)
    /\ a_last' = None
    /\ s_last' = None
    /\ t_last' = None
    /\ UNCHANGED <<km_vars, embed_vars, pipe_vars, split_vars, rid_vars, batch_vars, race_vars>>

\* get_db().search(query, user_id, top_k=10): VectorDB.search of
\* src/src/vector_db_search.py as a function of the collection
ToolSearch(query, user_id, fails1, fails2) ==
    LET call == [op |-> "search", collection |-> CollectionV3, query |-> query,
                 user_id |-> user_id, top_k |-> ToolTopK]
    IN IF fails1
       THEN call @@ [queries |-> <<QueryLog(user_id, FALSE, 0)>>,
                     outcome |-> "returned", result |-> <<>>]
       ELSE SearchAfterFirst(call, collection[CollectionV3], fails2)

FingerprintCaseSensitive(text) == Strip(Prefix(text, FingerprintLen))

\* text[:150].strip().lower()
Fingerprint(text) == Lower(Strip(Prefix(text, FingerprintLen)))

\* the loop over results: a pair whose fingerprint was not seen is kept, and
\* the loop breaks once 3 pairs are kept
RECURSIVE UniqueResults(_, _, _, _)
UniqueResults(results, i, seen, unique) ==
    IF i > Len(results) THEN unique
    ELSE LET fingerprint == Fingerprint(results[i][2])
             fresh == fingerprint \notin seen
             unique2 == IF fresh THEN Append(unique, results[i]) ELSE unique
         IN IF Len(unique2) >= MaxUnique THEN unique2
            ELSE UniqueResults(results, i + 1, seen \cup {fingerprint}, unique2)

\* text.replace("\n", " ").replace("\r", " ").strip()[:700]
Cleaned(text) ==
    Prefix(Strip([i \in 1..Len(text) |->
                    IF text[i] \in {"\n", "\r"} THEN " " ELSE text[i]]), ContentCap)

\* f"POLICY_ID: {doc_id}\nCONTENT: {cleaned}\n---" for each pair kept
Blocks(unique) ==
    [i \in 1..Len(unique) |->
        [policy_id |-> unique[i][1], content |-> Cleaned(unique[i][2])]]

\* what _run returns after its searches: "NO RESULT", the blocks, or the
\* "ERROR: ..." string of the handler when a search raised
ToolAnswer(call, searches) ==
    LET last == searches[Len(searches)]
        unique == UniqueResults(last.result, 1, {}, <<>>)
        made == [i \in 1..Len(searches) |-> searches[i].queries]
    IN IF last.outcome = "raised"
       THEN call @@ [searches |-> made, kind |-> "ERROR",
                     unique |-> <<>>, blocks |-> <<>>]
       ELSE IF last.result = <<>> \/ unique = <<>>
       THEN call @@ [searches |-> made, kind |-> "NO RESULT",
                     unique |-> <<>>, blocks |-> <<>>]
       ELSE call @@ [searches |-> made, kind |-> "blocks",
                     unique |-> unique, blocks |-> Blocks(unique)]

\* VectorDBSearchTool._run(query, user_id). The tool keeps nothing between
\* calls and does not write to the store, so a call made after another call
\* on the same store is a first call again: calls are followed from the
\* states in which none is recorded.
ToolRun ==
    /\ t_last = None
    /\ \E query \in Queries, user_id \in Tenants, fails \in [1..3 -> BOOLEAN] :
        LET call == [query |-> query, user_id |-> user_id]
            first == ToolSearch(query, user_id, fails[1], fails[2])
            second == ToolSearch(query, DefaultTenant, fails[3], FALSE)
        \* the fallback inside search is not taken for the default tenant
        IN t_last' = Some(IF /\ first.outcome = "returned"
                             /\ first.result = <<>>
                             /\ user_id # DefaultTenant
                          THEN ToolAnswer(call, <<first, second>>)
                          ELSE ToolAnswer(call, <<first>>))
    /\ a_last' = None
    /\ s_last' = None
    /\ UNCHANGED <<collection, next_uuid>>
    /\ UNCHANGED <<km_vars, embed_vars, pipe_vars, split_vars, rid_vars, batch_vars, race_vars>>

InitTool == InitStore

NextTool ==
    \/ ForceSeedPolicies
    \/ ToolRun

SpecTool == InitTool /\ [][NextTool]_vars

----------------------------------------------------------------------------
(* Claims about run_arca_pipeline, under SpecPipeline. *)

\* C1: whatever the outcome of the attempts (risks found, no risk found,
\* every attempt failed), the report returned has total_risks_flagged equal
\* to the number of its risks, and between 1 and 5 risks.
C1_ReportShape ==
    ~IsNone(report) =>
        /\ report[1].total_risks_flagged = Len(report[1].risks)
        /\ Len(report[1].risks) >= 1
        /\ Len(report[1].risks) <= 5

\* a first attempt failed and the second one's audit found no risk
C1_Witness ==
    /\ p_pc = "done"
    /\ Len(p_log) = 2
    /\ risk_report = Some([risks |-> <<>>])
    /\ ~IsNone(last_error)
    /\ report[1].risks[1].policy_id = "compliant"

AllAttemptsFailed ==
    /\ p_log # <<>>
    /\ \A i \in 1..Len(p_log) : p_log[i].kind # "ok"

\* C2: with a credential pool in place run_arca_pipeline never raises,
\* whatever the attempts raise; when every attempt failed the report holds
\* exactly one risk, policy_id "system_error", severity HIGH, whose summary is
\* "Analysis failed: " and the first 200 characters of the last error.
C2_NeverRaises ==
    /\ p_pc # "raised"
    /\ (p_pc = "done" /\ AllAttemptsFailed) =>
          /\ ~IsNone(report)
          /\ Len(report[1].risks) = 1
          /\ report[1].risks[1].policy_id = "system_error"
          /\ report[1].risks[1].severity = "HIGH"
          /\ report[1].risks[1].divergence_summary =
                AnalysisFailed \o SubSeq(last_error[1], 1, Min(200, Len(last_error[1])))

\* three failed attempts, quota and other, the last with a message over 200 characters
C2_Witness ==
    /\ p_pc = "done"
    /\ Len(p_log) = 3
    /\ AllAttemptsFailed
    /\ p_log[1].kind = "quota"
    /\ p_log[3].kind = "other"
    /\ last_error = Some(MsgLong)
    /\ Len(report[1].risks[1].divergence_summary) = Len(AnalysisFailed) + 200

\* C16: every risk of the report run_arca_pipeline returns has severity HIGH,
\* MEDIUM or LOW, whatever RiskItem values the audit answered with.
C16_SeverityInRange ==
    ~IsNone(report) =>
        \A i \in 1..Len(report[1].risks) :
            report[1].risks[i].severity \in {"HIGH", "MEDIUM", "LOW"}

\* C17: every free-text field of the report is within its cap, whatever
\* lengths the generation returned: 800 characters for the two excerpts, 500
\* for recommended_action and, no cap of their own being configured, the
\* largest cap, 800, for divergence_summary and for the recommendation.
C17_FieldsWithinCaps ==
    ~IsNone(report) =>
        /\ \A i \in 1..Len(report[1].risks) :
              LET r == report[1].risks[i] IN
              /\ Len(r.conflicting_policy_excerpt) <= ExcerptCap
              /\ Len(r.new_rule_excerpt) <= ExcerptCap
              /\ Len(r.recommended_action) <= ActionCap
              /\ Len(r.divergence_summary) <= ExcerptCap
        /\ Len(report[1].recommendation) <= ExcerptCap

\* C24: the report holds the synthetic "compliant" item only when the last
\* attempt completed and its audit task gave a valid result with no risks; a
\* run without a valid audit result is never reported as compliant.
C24_CompliantOnlyWhenAudited ==
    (p_pc = "done" /\ \E i \in 1..Len(report[1].risks) :
                          report[1].risks[i].policy_id = "compliant") =>
        /\ p_log[Len(p_log)].kind = "ok"
        /\ ~IsNone(risk_report)
        /\ risk_report[1].risks = <<>>

\* the index after the handler of the i-th attempt, a failed one: the next
\* attempt's, or the current one when no attempt followed
IndexAfterHandler(i) ==
    IF i < Len(p_log) THEN p_log[i + 1].index ELSE current_key_index

\* C25: an attempt that fails with a quota-type error (its text holds "429",
\* "resource_exhausted" or "quota") is followed by exactly one rotate_key: the
\* index is one further, modulo the pool size, than where the attempt left
\* it; an attempt that fails with another error is followed by none, and the
\* index is where the attempt left it.
C25_RotateOnQuotaOnly ==
    (km = "ready" /\ p_pc \in {"loop", "process", "done"}) =>
        /\ \A i \in 1..Len(p_log) :
              /\ p_log[i].kind = "quota" =>
                    IndexAfterHandler(i) = (p_log[i].end_index + 1) % Len(api_keys)
              /\ p_log[i].kind = "other" =>
                    IndexAfterHandler(i) = p_log[i].end_index
        /\ (p_log # <<>> /\ p_log[Len(p_log)].kind # "ok") =>
              (p_log[Len(p_log)].kind = "quota"
                  <=> last_error[1] \in {Msg429, MsgQuota, MsgResource})

\* a pool of two: a quota failure moved the index from 0 to 1, a rate-limit
\* message, which is no quota-type error here, and a long message left it at 1
C25_Witness ==
    /\ p_pc = "process"
    /\ Len(api_keys) = 2
    /\ Len(p_log) = 3
    /\ p_log[1].kind = "quota" /\ p_log[1].index = 0 /\ p_log[1].end_index = 0
    /\ p_log[2].kind = "other" /\ p_log[2].index = 1 /\ p_log[2].end_index = 1
    /\ p_log[3].kind = "other" /\ p_log[3].index = 1
    /\ last_error = Some(MsgRate)
    /\ current_key_index = p_log[3].end_index

\* the crew was launched at most 3 times, an attempt that succeeded was the
\* last one, and after a third launch the loop has been left
AttemptsBounded ==
    /\ Len(p_log) <= 3
    /\ \A i \in 1..Len(p_log) :
          p_log[i].kind = "ok" => (i = Len(p_log) /\ p_pc \in {"process", "done"})
    /\ Len(p_log) = 3 => p_pc \in {"process", "done"}
    /\ p_pc = "done" => ~IsNone(report)

\* C26: an invocation launches the crew at most 3 times, stops at the first
\* attempt that succeeds, and after a third failed attempt goes on to build
\* the report; whatever the failures are, quota or other, an invocation that
\* has entered its loop ends with the report built.
C26_BoundedAndTerminates ==
    /\ []AttemptsBounded
    /\ (p_pc = "loop" ~> p_pc = "done")

\* three launches failed, the first two with a quota error and the third
\* with another one, and the report was built
C26_Witness ==
    /\ p_pc = "done"
    /\ Len(p_log) = 3
    /\ p_log[1].kind = "quota"
    /\ p_log[2].kind = "quota"
    /\ p_log[3].kind = "other"
    /\ ~IsNone(report)
    /\ report[1].risks[1].policy_id = "system_error"

----------------------------------------------------------------------------
(* Claims about VectorDB, under SpecStore. *)

\* the search call just made, either revision's
Searched == ~IsNone(s_last)

\* the entries of the searched collection stored under a tenant
TenantEntries(user_id) ==
    SelectSeq(collection[s_last[1].collection],
              LAMBDA e : e.metadata.user_id = user_id)

\* the (id, document) pairs of the first top_k entries the store ranks for
\* the query among those of a tenant
TopPairs(user_id) ==
    LET ranked == Rank(s_last[1].query, TenantEntries(user_id))
    IN [i \in 1..Min(s_last[1].top_k, Len(ranked)) |->
           <<ranked[i].id, ranked[i].document>>]

\* the tenant query of the call answered, with no document
TenantQueryEmpty == s_last[1].queries[1].ok /\ s_last[1].queries[1].n = 0

\* the pair is the id and text of an entry stored under the tenant
PairOf(pair, user_id) ==
    \E i \in 1..Len(TenantEntries(user_id)) :
        pair = <<TenantEntries(user_id)[i].id, TenantEntries(user_id)[i].document>>

\* C3: a search for a tenant other than "default" whose tenant query answers
\* with zero documents queries again, restricted to the "default" tenant, and
\* what it returns is exactly what the default tenant's query gives: the first
\* top_k default-tenant entries for the query, as (id, document) pairs.
C3_FallbackToDefault ==
    (Searched /\ s_last[1].user_id # DefaultTenant /\ TenantQueryEmpty) =>
        /\ Len(s_last[1].queries) = 2
        /\ s_last[1].queries[2].where = DefaultTenant
        /\ s_last[1].outcome = "returned" =>
              /\ s_last[1].result = TopPairs(DefaultTenant)
              /\ TenantEntries(DefaultTenant) # <<>> => s_last[1].result # <<>>

\* a tenant without entries searches the seeded collection and is answered
\* with the default tenant's chunk
C3_Witness ==
    /\ Searched
    /\ s_last[1].collection = CollectionV3
    /\ s_last[1].user_id = "acme"
    /\ TenantEntries("acme") = <<>>
    /\ TenantQueryEmpty
    /\ s_last[1].outcome = "returned"
    /\ Len(s_last[1].result) >= 1
    /\ PairOf(s_last[1].result[1], DefaultTenant)

\* C4: when the tenant query answers with at least one document the search
\* makes no query on the default tenant and returns only the tenant's own
\* entries; in every case a returned pair is an entry of the requested tenant
\* or, only when the tenant query was empty, of the default tenant, and never
\* of a third tenant.
C4_TenantIsolation ==
    Searched =>
        /\ (s_last[1].queries[1].ok /\ s_last[1].queries[1].n >= 1) =>
              /\ Len(s_last[1].queries) = 1
              /\ \A i \in 1..Len(s_last[1].result) :
                    PairOf(s_last[1].result[i], s_last[1].user_id)
        /\ \A i \in 1..Len(s_last[1].result) :
              \/ PairOf(s_last[1].result[i], s_last[1].user_id)
              \/ TenantQueryEmpty /\ PairOf(s_last[1].result[i], DefaultTenant)

\* a tenant with an entry of its own searches a collection that also holds
\* an entry of another tenant, asks for two results and gets its own only
C4_Witness ==
    /\ Searched
    /\ s_last[1].user_id = "acme"
    /\ s_last[1].top_k = 2
    /\ Len(collection[s_last[1].collection]) = 2
    /\ Len(TenantEntries("acme")) = 1
    /\ Len(TenantEntries(DefaultTenant)) = 1
    /\ s_last[1].outcome = "returned"
    /\ Len(s_last[1].result) = 1
    /\ PairOf(s_last[1].result[1], "acme")

\* C5: one search makes at most two queries on the store, exactly one when
\* the tenant is "default"; when the tenant query and the default query both
\* answer with zero documents the search returns an empty list and does not
\* raise.
C5_SingleHop ==
    Searched =>
        /\ Len(s_last[1].queries) \in {1, 2}
        /\ s_last[1].user_id = DefaultTenant => Len(s_last[1].queries) = 1
        /\ (\A i \in 1..Len(s_last[1].queries) :
                s_last[1].queries[i].ok /\ s_last[1].queries[i].n = 0) =>
              /\ s_last[1].outcome = "returned"
              /\ s_last[1].result = <<>>

\* a tenant without entries searches a collection that holds another
\* tenant's entry and none of the default tenant: two queries, no result
C5_Witness ==
    /\ Searched
    /\ s_last[1].user_id = "globex"
    /\ collection[s_last[1].collection] # <<>>
    /\ Len(s_last[1].queries) = 2
    /\ s_last[1].queries[2].ok
    /\ s_last[1].queries[2].n = 0
    /\ s_last[1].outcome = "returned"
    /\ s_last[1].result = <<>>

\* the tenant whose query gave the returned results: the requested one, or
\* "default" after a fallback
AnsweringTenant ==
    IF Len(s_last[1].queries) = 2 THEN DefaultTenant ELSE s_last[1].user_id

\* C20: a search that returns gives a list of (identifier, text) pairs, at
\* most top_k of them, in the order in which the store ranked the entries
\* for the query; the i-th pair holds the identifier and the text of one and
\* the same stored entry, the i-th of the query that answered, which after a
\* fallback is the default tenant's.
C20_PairsInStoreOrder ==
    (Searched /\ s_last[1].outcome = "returned") =>
        LET ranked == Rank(s_last[1].query, TenantEntries(AnsweringTenant))
            result == s_last[1].result
        IN /\ Len(result) <= s_last[1].top_k
           /\ Len(result) <= Len(ranked)
           /\ \A i \in 1..Len(result) :
                 /\ Len(result[i]) = 2
                 /\ result[i][1] = ranked[i].id
                 /\ result[i][2] = ranked[i].document
           /\ \A i, j \in 1..Len(result) : result[i][1] = result[j][1] => i = j

\* two entries with different texts are returned for a query that the store
\* ranks in the reverse of the insertion order, after a fallback
C20_Witness ==
    /\ Searched
    /\ s_last[1].outcome = "returned"
    /\ s_last[1].user_id # DefaultTenant
    /\ Len(s_last[1].queries) = 2
    /\ s_last[1].query = "security"
    /\ s_last[1].top_k = 2
    /\ Len(s_last[1].result) = 2
    /\ s_last[1].result[1][2] # s_last[1].result[2][2]
    /\ s_last[1].result[1][1] = TenantEntries(DefaultTenant)[2].id
    /\ s_last[1].result[2][1] = TenantEntries(DefaultTenant)[1].id

\* C18: when a query on the store raises, be it the tenant query or the
\* default query of the fallback, search raises to its caller and does not
\* answer with an empty result.
C18_SearchPropagatesErrors ==
    (Searched /\ \E i \in 1..Len(s_last[1].queries) : ~s_last[1].queries[i].ok)
        => s_last[1].outcome = "raised"

\* the chunks split_text gives for the text of the add_document call just made
AddedChunks ==
    IF a_last[1].collection = CollectionV3
    THEN Splits[a_last[1].text]
    ELSE SeedSplits[a_last[1].text].chunks

\* C6: when add_document(text, filename, tenant) has returned, the collection
\* ends with one entry per chunk of split_text(text), each with an identifier
\* that starts with the tenant id and differs from every other identifier,
\* and with metadata {source: filename, user_id: tenant}; for a text that is
\* not blank the collection then holds chunks under that tenant.
C6_AddInsertsChunks ==
    (~IsNone(a_last) /\ a_last[1].op = "add_document"
                     /\ a_last[1].outcome = "returned") =>
        LET entries == collection[a_last[1].collection]
            n == Len(AddedChunks)
        IN /\ Len(entries) >= n
           /\ \A i \in 1..n :
                LET e == entries[Len(entries) - n + i] IN
                /\ e.document = AddedChunks[i]
                /\ e.id[1] = a_last[1].user_id
                /\ e.metadata = [source |-> a_last[1].filename,
                                 user_id |-> a_last[1].user_id]
           /\ \A i, j \in 1..Len(entries) : i # j => entries[i].id # entries[j].id
           /\ Strip(a_last[1].text) # <<>> =>
                \E i \in 1..Len(entries) :
                    entries[i].metadata.user_id = a_last[1].user_id

----------------------------------------------------------------------------
(* Claims about VectorDBSearchTool._run, under SpecTool. *)

\* the entry of the collection with the given id
PolicyEntry(id) ==
    LET entries == collection[CollectionV3]
    IN entries[CHOOSE k \in 1..Len(entries) : entries[k].id = id]

\* the place of the entry with the given id in the store's order for a query
PlaceInStoreOrder(query, id) ==
    LET ranked == Rank(query, collection[CollectionV3])
    IN CHOOSE k \in 1..Len(ranked) : ranked[k].id = id

\* the first 150 characters of a text, trimmed and lower-cased
ExcerptFingerprint(text) ==
    Lower(Strip(SubSeq(text, 1, Min(Len(text), FingerprintLen))))

\* C31: a call of the retrieval tool returns at most 3 policy excerpts, each
\* an entry of the store, in the store's order for the query, no two with the
\* same fingerprint (first 150 characters, trimmed and lower-cased); when no
\* search raised and every query of the call answered nothing, it returns
\* "NO RESULT", and otherwise it returns at least one excerpt.
C31_AtMostThreeDistinctInOrder ==
    t_last # None =>
        LET t == t_last[1]
            n == Len(t.blocks)
            Answered(i) == \E j \in 1..Len(t.searches[i]) : t.searches[i][j].n > 0
        IN /\ n <= MaxUnique
           /\ t.kind \in {"blocks", "NO RESULT", "ERROR"}
           /\ t.kind = "blocks" <=> n >= 1
           /\ \A i \in 1..n :
                /\ \E k \in 1..Len(collection[CollectionV3]) :
                      collection[CollectionV3][k].id = t.blocks[i].policy_id
                /\ t.unique[i] = <<t.blocks[i].policy_id,
                                   PolicyEntry(t.blocks[i].policy_id).document>>
           /\ \A i, j \in 1..n :
                i < j =>
                    /\ PlaceInStoreOrder(t.query, t.blocks[i].policy_id)
                         < PlaceInStoreOrder(t.query, t.blocks[j].policy_id)
                    /\ ExcerptFingerprint(PolicyEntry(t.blocks[i].policy_id).document)
                         # ExcerptFingerprint(PolicyEntry(t.blocks[j].policy_id).document)
           /\ (t.kind # "ERROR" /\ \A i \in 1..Len(t.searches) : ~Answered(i))
                 => t.kind = "NO RESULT"
           /\ (t.kind # "ERROR" /\ \E i \in 1..Len(t.searches) : Answered(i))
                 => t.kind = "blocks"

\* a tenant without entries of its own asked; the store's order for the query
\* is the reverse of the insertion order; the default tenant holds 4 chunks,
\* two of them with one fingerprint and different text; 3 excerpts came back,
\* and the later of the two was left out
C31_Witness ==
    /\ t_last # None
    /\ t_last[1].kind = "blocks"
    /\ t_last[1].user_id # DefaultTenant
    /\ t_last[1].query = "security"
    /\ Len(t_last[1].blocks) = MaxUnique
    /\ Len(collection[CollectionV3]) = MaxUnique + 1
    /\ \E k \in 1..Len(collection[CollectionV3]) :
          LET e == collection[CollectionV3][k] IN
          /\ \A i \in 1..MaxUnique : t_last[1].blocks[i].policy_id # e.id
          /\ \E i \in 1..MaxUnique :
                /\ ExcerptFingerprint(t_last[1].unique[i][2])
                      = ExcerptFingerprint(e.document)
                /\ t_last[1].unique[i][2] # e.document
                /\ PlaceInStoreOrder("security", t_last[1].unique[i][1])
                      < PlaceInStoreOrder("security", e.id)

----------------------------------------------------------------------------
(* Claims about the rotator and the embedding call, under SpecRotator. *)

PoolSize == Len(api_keys)

\* C7: a constructed GeminiKeyManager always has a non-empty pool and
\* 0 <= current_key_index < len(api_keys), whatever rotate_key and
\* embed_content_with_retry calls were made; and with no credential in the
\* environment the constructor raises, so that no manager exists.
C7_IndexInBounds ==
    /\ km = "ready" =>
          /\ Len(api_keys) >= 1
          /\ current_key_index >= 0
          /\ current_key_index < Len(api_keys)
    /\ (\A i \in 1..NumEnvVars : env[i] \in {None, Some("")}) => km # "ready"

\* the index has wrapped around a pool of several keys, inside an embedding call
C7_Witness ==
    /\ km = "ready"
    /\ Len(api_keys) >= 2
    /\ Len(key_hist) > Len(api_keys)
    /\ current_key_index = 0
    /\ e_pc = "raised"
    /\ Len(e_log) >= 2

\* C8: N = len(api_keys) consecutive rotate_key calls, from any index, bring
\* get_current_key back to the credential that was current before them.
C8_FullCycle ==
    (km = "ready" /\ Len(key_hist) = PoolSize + 1) => key_hist[PoolSize + 1] = key_hist[1]

\* a pool of two distinct keys or more has been cycled through once
C8_Witness ==
    /\ km = "ready"
    /\ PoolSize >= 2
    /\ api_keys[1] # api_keys[2]
    /\ Len(key_hist) > PoolSize
    /\ current_key_index = 0

\* the claim's own reading of a quota failure: the text of the error holds
\* "429", "quota" or "rate limit" in any letter case
QuotaText(msg) ==
    \E sub \in {<<"4","2","9">>, <<"q","u","o","t","a">>,
                <<"r","a","t","e"," ","l","i","m","i","t">>} :
        \E i \in 1..(Len(msg) - Len(sub) + 1) :
            \A j \in 1..Len(sub) : LowerChar(msg[i + j - 1]) = sub[j]

\* a step in which embed_content_with_retry made a remote call
EmbedCallStep == Len(e_log') = Len(e_log) + 1

\* C9: a remote failure with a quota text rotates to the next credential and
\* retries, within the cap: at most max_retries remote calls are made (pool
\* size by default), and the value returned is the embedding of the first
\* call that succeeded.
C9_RotateAndRetry ==
    /\ [][(EmbedCallStep /\ ~IsNone(e_exc') /\ e_log'[Len(e_log')].kind # "ok"
             /\ QuotaText(e_exc'[1]) /\ Len(e_log') < e_max_retries)
          => /\ current_key_index' = (current_key_index + 1) % PoolSize
             /\ configured_key' = api_keys[current_key_index' + 1]
             /\ e_pc' = "loop"
             /\ e_attempt' = e_attempt + 1]_vars
    /\ [](km = "ready" /\ e_pc # "idle" =>
            /\ Len(e_log) <= IF IsNone(e_arg) THEN PoolSize ELSE e_arg[1]
            /\ \A i \in 1..Len(e_log) : e_log[i].kind = "ok" => i = Len(e_log)
            /\ e_pc = "returned" =>
                  /\ e_log # <<>>
                  /\ e_log[Len(e_log)].kind = "ok"
                  /\ e_result = Some(Embedding(e_text)))

\* two quota failures, two rotations, then the third call succeeds
C9_Witness ==
    /\ e_pc = "returned"
    /\ Len(e_log) = 3
    /\ e_log[1].index # e_log[2].index
    /\ e_log[2].index # e_log[3].index
    /\ e_log[1].key # e_log[2].key
    /\ e_log[3].key = configured_key

\* C10: a remote failure that is not a quota failure is raised at once: that
\* error reaches the caller, no rotation happens (current_key_index and the
\* configured credential stay), and no further remote call is made.
C10_OtherErrorRaised ==
    [][/\ EmbedCallStep => e_pc = "loop"
       /\ (EmbedCallStep /\ e_log'[Len(e_log')].kind # "ok" /\ ~QuotaText(e_exc'[1]))
          => /\ e_pc' = "raised"
             /\ e_error' = e_exc'
             /\ current_key_index' = current_key_index
             /\ configured_key' = configured_key
             /\ key_hist' = key_hist]_vars

\* a quota failure rotated, then a non-quota failure was raised on the second call
C10_Witness ==
    /\ e_pc = "raised"
    /\ Len(e_log) = 2
    /\ e_log[2].kind = "other"
    /\ e_error = Some(MsgBadInput)
    /\ current_key_index = e_log[2].index
    /\ current_key_index # 0
    /\ e_max_retries > 2


\* the call of embed_content_with_retry with the default retry bound has
\* ended raised, every remote call of it having failed with a quota error
AllQuotaDefaultCall ==
    /\ km = "ready"
    /\ e_pc = "raised"
    /\ IsNone(e_arg)
    /\ e_log # <<>>
    /\ \A i \in 1..Len(e_log) : e_log[i].kind = "quota"

\* C11: when every attempt of a call with the default retry bound hits a
\* quota error, and nothing else rotates meanwhile, each position of the pool
\* is attempted exactly once, in rotation order from the current one, with
\* the credential stored there (so with distinct credentials none is skipped
\* or repeated), and the call fails with the "All N API keys hit rate limits"
\* error.
C11_FullCycleThenExhausted ==
    AllQuotaDefaultCall =>
        /\ Len(e_log) = PoolSize
        /\ {e_log[i].index : i \in 1..Len(e_log)} = 0..(PoolSize - 1)
        /\ \A i \in 1..Len(e_log) : e_log[i].key = api_keys[e_log[i].index + 1]
        /\ \A i \in 1..(Len(e_log) - 1) :
              e_log[i + 1].index = (e_log[i].index + 1) % PoolSize
        /\ (\A i, j \in 1..PoolSize : i # j => api_keys[i] # api_keys[j]) =>
              /\ {e_log[i].key : i \in 1..Len(e_log)} = {api_keys[i] : i \in 1..PoolSize}
              /\ \A i, j \in 1..Len(e_log) : i # j => e_log[i].key # e_log[j].key
        /\ e_error = Some(ExhaustedMsg(PoolSize))
        /\ e_error # Some(FailedMsg)

\* a pool of two credentials, the second one current when the call starts:
\* the second, then the first is attempted, and the call is raised
C11_Witness ==
    /\ AllQuotaDefaultCall
    /\ PoolSize = 2
    /\ api_keys[1] # api_keys[2]
    /\ e_log[1].index = 1
    /\ e_log[2].index = 0
    /\ e_error = Some(ExhaustedMsg(2))

\* the rotations made between the remote calls of the call just finished:
\* consecutive remote calls made at different positions of the pool (a
\* rotation changes the position in a pool of two)
RotationsInCall ==
    Cardinality({i \in 1..(Len(e_log) - 1) : e_log[i + 1].index # e_log[i].index})

\* a call with max_retries = 4 on a pool of two credentials
TwoKeysFourRetries ==
    /\ km = "ready"
    /\ PoolSize = 2
    /\ e_arg = Some(4)
    /\ e_pc \in {"returned", "raised"}

\* the remote call gave three quota errors in a row and then an answer
ThreeQuotaThenOk ==
    /\ e_pc = "returned"
    /\ Len(e_log) = 4
    /\ \A i \in 1..3 : e_log[i].kind = "quota"

\* C21 as stated: with a pool of two credentials and max_retries = 4, three
\* quota errors in a row followed by a success make exactly 2 rotations
\* before the call returns; quota errors up to the cap raise the exhaustion
\* error.
C21_TwoRotationsThenSuccess ==
    TwoKeysFourRetries =>
        /\ ThreeQuotaThenOk =>
              /\ RotationsInCall = 2
              /\ e_result = Some(Embedding(e_text))
        /\ (e_pc = "raised" /\ \A i \in 1..Len(e_log) : e_log[i].kind = "quota") =>
              e_error = Some(ExhaustedMsg(2))

\* C21 amended: with a pool of two credentials and max_retries = 4, three
\* quota errors in a row followed by a success make exactly 3 rotations, one
\* after each quota error, the call returns the embedding from its 4th
\* attempt, made with the other credential than the one the call started
\* on; four quota errors make 3 rotations and raise the exhaustion error.
C21_ThreeRotationsThenSuccess ==
    TwoKeysFourRetries =>
        /\ ThreeQuotaThenOk =>
              /\ RotationsInCall = 3
              /\ e_log[4].kind = "ok"
              /\ e_log[4].attempt = 3
              /\ e_result = Some(Embedding(e_text))
              /\ e_log[4].index = 1 - e_log[1].index
              /\ e_log[4].key = api_keys[e_log[4].index + 1]
        /\ (e_pc = "raised" /\ \A i \in 1..Len(e_log) : e_log[i].kind = "quota") =>
              /\ Len(e_log) = 4
              /\ RotationsInCall = 3
              /\ e_error = Some(ExhaustedMsg(2))

\* two distinct credentials, three quota errors, the 4th attempt answers
C21_Witness ==
    /\ TwoKeysFourRetries
    /\ ThreeQuotaThenOk
    /\ api_keys[1] # api_keys[2]
    /\ e_log[1].index = 0
    /\ e_log[4].kind = "ok"
    /\ e_log[4].key = api_keys[2]

\* the values of s in the order of their first occurrence
RECURSIVE FirstOccurrences(_)
FirstOccurrences(s) ==
    IF s = <<>> THEN <<>>
    ELSE LET front == FirstOccurrences(SubSeq(s, 1, Len(s) - 1))
             last == s[Len(s)]
         IN IF \E i \in 1..Len(front) : front[i] = last THEN front
            ELSE Append(front, last)

\* C23: the pool of a constructed manager holds no credential twice, whatever
\* the environment variables hold, and keeps the credentials in the order in
\* which the environment first gives them.
C23_PoolDeduplicated ==
    km = "ready" =>
        /\ \A i, j \in 1..Len(api_keys) : api_keys[i] = api_keys[j] => i = j
        /\ api_keys = FirstOccurrences(LoadKeys(env))

\* a step of a caller's rotate_key: the manager exists and no embedding call
\* starts or moves
RotateKeyStep == km = "ready" /\ km' = "ready" /\ embed_vars' = embed_vars

\* C28: with one caller at a time, rotate_key moves current_key_index on by
\* exactly one modulo the pool size and configures the client with the
\* credential at the new index; after construction and after every rotation
\* the configured credential is api_keys[current_key_index].
C28_ConfiguredIsCurrent ==
    /\ [](km = "ready" => configured_key = api_keys[current_key_index + 1])
    /\ [][RotateKeyStep =>
             /\ current_key_index' = (current_key_index + 1) % PoolSize
             /\ configured_key' = api_keys[current_key_index' + 1]]_vars

\* rotate_key was called twice on a fresh pool of two distinct credentials:
\* the index is back at 0 and the first credential is configured again
C28_Witness ==
    /\ km = "ready"
    /\ e_pc = "idle"
    /\ PoolSize = 2
    /\ api_keys[1] # api_keys[2]
    /\ key_hist = <<api_keys[1], api_keys[2], api_keys[1]>>
    /\ current_key_index = 0
    /\ configured_key = api_keys[1]

----------------------------------------------------------------------------
(* Claims about concurrent requests on the shared rotator, under SpecRace. *)

\* the credential after k in the pool's order (the pools here hold distinct
\* credentials)
KeyAfter(k) ==
    LET pos == CHOOSE i \in 1..Len(api_keys) : api_keys[i] = k
    IN api_keys[(pos % Len(api_keys)) + 1]

\* a retry of the request was not made with the credential next in order
\* after the one its previous call failed on
RetriedUnintended(c) ==
    \E i \in 1..(Len(r_log[c]) - 1) : r_log[c][i + 1].key # KeyAfter(r_log[c][i].key)

\* the first call of the request was made with another credential than the
\* one configured when the request entered
FirstCallMoved(c) ==
    /\ r_log[c] # <<>>
    /\ r_log[c][1].key # r_start[c][1]

OtherCaller(c) == CHOOSE d \in Callers : d # c

\* C29: with two requests in embed_content_with_retry on the one manager, a
\* request's retry is made with an unintended credential, or its call is
\* made with another credential than the one in force when it entered, only
\* through a rotation of the other request; and interleavings in which both
\* happen exist.
C29_RaceOnSharedRotator ==
    \A c \in Callers :
        (RetriedUnintended(c) \/ FirstCallMoved(c)) => r_rot[OtherCaller(c)] >= 1

\* a pool of two: request 1 fails on the first credential; request 2, which
\* entered while the first credential was configured, makes its call with
\* the second one, to which request 1 has rotated meanwhile, and fails too;
\* its rotation brings the first credential back, and request 1 retries with
\* the credential it has just failed on
C29_Witness ==
    /\ Len(api_keys) = 2
    /\ Len(r_log[1]) = 2
    /\ r_log[1][1].kind = "quota"
    /\ r_log[1][2].key = r_log[1][1].key
    /\ r_rot[1] = 1
    /\ FirstCallMoved(2)
    /\ r_log[2][1].attempt = 0

\* no request is inside rotate_key: every call of it made so far has returned
NoRotationInFlight == \A c \in Callers : r_pc[c] \notin {"store", "configure", "apply"}

\* the calls of rotate_key that stored an index; with none in flight, the
\* calls that have returned
CompletedRotations == r_rot[1] + r_rot[2]

\* once every rotate_key call has returned, the client is configured with
\* the credential at current_key_index
C33_ConfiguredIsCurrent ==
    (km = "ready" /\ NoRotationInFlight) =>
        configured_key = api_keys[current_key_index + 1]

\* once every rotate_key call has returned, the index is the number of
\* completed calls modulo the pool size (it starts at 0)
C33_IndexCountsRotations ==
    (km = "ready" /\ NoRotationInFlight) =>
        current_key_index = CompletedRotations % Len(api_keys)

\* C33: under any interleaving of the rotate_key calls of two concurrent
\* requests on the shared manager, once all the calls have returned the
\* credential the client is configured with is api_keys[current_key_index],
\* and k completed calls have advanced the index by k modulo the pool size.
C33_RotationsAtomic ==
    /\ C33_ConfiguredIsCurrent
    /\ C33_IndexCountsRotations

----------------------------------------------------------------------------
(* Claims about SimpleTextSplitter.split_text, under SpecSplit. *)

\* the window's end is where a separator found inside it ends
EndsAfter(w, sep) ==
    /\ w.end >= Len(sep)
    /\ SubSeq(sp_text, w.end - Len(sep) + 1, w.end) = sep

\* C12: every chunk split_text has collected or returned is at most
\* chunk_size characters long, and so is the window it was cut from,
\* whether the window ends at a paragraph break, at a sentence break or at
\* the hard cut.
C12_ChunkWithinSize ==
    /\ \A i \in 1..Len(sp_chunks) : Len(sp_chunks[i]) <= sp_size
    /\ \A i \in 1..Len(sp_windows) :
          /\ Len(sp_windows[i].chunk) <= sp_size
          /\ sp_windows[i].end - sp_windows[i].start <= sp_size

\* the current revision has returned two chunks, the first cut at a
\* paragraph break short of the full window
C12_Witness ==
    /\ sp_pc = "returned"
    /\ sp_impl = "v3"
    /\ Len(sp_chunks) = 2
    /\ sp_windows[1].end < sp_windows[1].start + sp_size
    /\ EndsAfter(sp_windows[1], ParaBreak)
    /\ Len(sp_chunks[1]) > BoundaryMargin

\* C13: of any two consecutive windows split_text cuts from a text, the
\* later one starts chunk_overlap characters before the end of the earlier
\* one.
C13_WindowsOverlap ==
    \A i \in 1..(Len(sp_windows) - 1) :
        sp_windows[i + 1].start = sp_windows[i].end - sp_overlap

\* the characters str.strip removes that the texts tried hold
Blank(c) == c \in {" ", "\n", "\t", "\r"}

\* the chunks of the windows that are not empty after trimming, in order
KeptChunks ==
    LET all == [i \in 1..Len(sp_windows) |-> sp_windows[i].chunk]
    IN SelectSeq(all, LAMBDA c : c # <<>>)

\* C14: split_text of the empty string returns an empty list; every chunk
\* collected or returned is non-empty and neither starts nor ends with white
\* space; the chunks are exactly the trimmed windows that are not empty, so a
\* window of white space only is dropped and a final window shorter than
\* chunk_size is kept.
C14_ChunksTrimmedNonEmpty ==
    /\ (sp_pc = "returned" /\ sp_text = <<>>) => sp_chunks = <<>>
    /\ \A i \in 1..Len(sp_chunks) :
          /\ sp_chunks[i] # <<>>
          /\ ~Blank(sp_chunks[i][1])
          /\ ~Blank(sp_chunks[i][Len(sp_chunks[i])])
    /\ sp_chunks = KeptChunks
    /\ \A i \in 1..Len(sp_windows) :
          LET w == sp_windows[i] IN
          /\ (\A k \in (w.start + 1)..w.end : k >= 1 => Blank(sp_text[k]))
                => w.chunk = <<>>
          /\ (w.start >= 0 /\ w.end > w.start /\ ~Blank(sp_text[w.start + 1])
                /\ ~Blank(sp_text[w.end]))
                => w.chunk = SubSeq(sp_text, w.start + 1, w.end)

\* the current revision dropped a first window of three spaces and kept the
\* final window, two characters long with chunk_size 3
C14_Witness ==
    /\ sp_pc = "returned"
    /\ sp_impl = "v3"
    /\ sp_size = 3
    /\ Len(sp_windows) = 2
    /\ sp_windows[1].chunk = <<>>
    /\ sp_windows[2].end = Len(sp_text)
    /\ sp_chunks = << <<"a", "a">> >>

\* split_text has returned for a document of 1200 characters split with
\* chunk_size = 400 and chunk_overlap = 50
ScenarioSplitDone ==
    /\ sp_pc = "returned"
    /\ Len(sp_text) = 1200
    /\ sp_size = 400
    /\ sp_overlap = 50

NoWhitespace(text) == \A i \in 1..Len(text) : text[i] \notin Whitespace

\* C22 as stated: a document of 1200 characters split with chunk_size = 400
\* and chunk_overlap = 50 gives exactly 4 chunks, each of at most 400
\* characters, each window starting at most 50 characters before the end of
\* the previous one.
C22_FourChunks ==
    ScenarioSplitDone =>
        /\ Len(sp_chunks) = 4
        /\ \A i \in 1..Len(sp_chunks) : Len(sp_chunks[i]) <= 400
        /\ \A i \in 1..(Len(sp_windows) - 1) :
              sp_windows[i].end - sp_windows[i + 1].start <= 50

\* C22 amended: a document of 1200 characters that holds no whitespace, split
\* with chunk_size = 400 and chunk_overlap = 50, gives exactly 4 chunks, the
\* texts of the windows [0,400), [350,750), [700,1100) and [1050,1200): each
\* of at most 400 characters and each overlapping the previous one by 50.
C22_FourChunksOfPlainText ==
    (ScenarioSplitDone /\ NoWhitespace(sp_text)) =>
        /\ Len(sp_chunks) = 4
        /\ Len(sp_windows) = 4
        /\ \A i \in 1..4 :
              /\ sp_windows[i].start = 350 * (i - 1)
              /\ sp_windows[i].end = Min(350 * (i - 1) + 400, 1200)
              /\ sp_chunks[i] = SubSeq(sp_text, sp_windows[i].start + 1, sp_windows[i].end)
              /\ Len(sp_chunks[i]) <= 400
        /\ \A i \in 1..3 : sp_windows[i].end - sp_windows[i + 1].start = 50

\* the current revision has split the document with full stops and no
\* whitespace
C22_Witness ==
    /\ ScenarioSplitDone
    /\ sp_impl = "v3"
    /\ NoWhitespace(sp_text)
    /\ \E i \in 1..Len(sp_text) : sp_text[i] = "."
    /\ Len(sp_chunks) = 4
    /\ Len(sp_chunks[4]) = 150

\* C27: the start offset strictly increases from one loop iteration of
\* split_text to the next, for every text and every configuration with
\* 0 <= chunk_overlap < chunk_size, so that the loop ends after at most
\* len(text) iterations.
C27_StartIncreases ==
    /\ \A i \in 1..(Len(sp_windows) - 1) :
          sp_windows[i + 1].start > sp_windows[i].start
    /\ (sp_pc = "loop" /\ sp_windows # <<>>) =>
          sp_start > sp_windows[Len(sp_windows)].start
    /\ Len(sp_windows) <= Len(sp_text)

\* C32: every window after the first starts at or before the end of the
\* window before it, and once split_text has returned every character of the
\* text that is not white space lies in a window whose chunk was returned.
C32_NoTextLost ==
    /\ \A i \in 1..(Len(sp_windows) - 1) :
          sp_windows[i + 1].start <= sp_windows[i].end
    /\ sp_pc = "returned" =>
          \A p \in 1..Len(sp_text) :
              sp_text[p] \notin Whitespace =>
                  \E i \in 1..Len(sp_windows) :
                      /\ sp_windows[i].start < p
                      /\ p <= sp_windows[i].end
                      /\ sp_windows[i].chunk # <<>>

----------------------------------------------------------------------------
(* Claims about regulation_id_for, under SpecRegId. *)

\* C15: regulation_id_for gives two calls the same identifier when their
\* text and date_of_law are the same, and (the digest taken as free of
\* collisions) different identifiers when the text or the date_of_law
\* differs, an absent date_of_law being different from every value given.
C15_IdentifierInjective ==
    \A i, j \in 1..Len(rid_calls) :
        (rid_calls[i].text = rid_calls[j].text
            /\ rid_calls[i].date_of_law = rid_calls[j].date_of_law)
        <=> rid_calls[i].id = rid_calls[j].id

----------------------------------------------------------------------------
(* Claims about the embedding functions, under SpecBatch. *)

\* C19: the batch embedding returns exactly one vector per input text, in the
\* order of the input: the embedding of the text where it came, and where it
\* failed a vector of 768 zeros, the items after a failed one being embedded
\* all the same.
C19_OneVectorPerText ==
    /\ b_pc \in {"loop", "item"} => Len(b_results) = b_i - 1
    /\ Len(b_outcomes) = Len(b_results)
    /\ b_pc = "returned" =>
          /\ Len(b_results) = Len(b_input)
          /\ \A i \in 1..Len(b_input) :
                IF b_outcomes[i] = "ok"
                THEN b_results[i] = Embedding(b_input[i])
                ELSE /\ Len(b_results[i]) = 768
                     /\ \A k \in 1..768 : b_results[i][k] = 0

\* the first of two texts failed after a rotation through the pool, the
\* second was embedded: a zero vector, then the second text's embedding
C19_Witness ==
    /\ b_pc = "returned"
    /\ b_impl = "manager"
    /\ Len(b_input) = 2
    /\ b_input[1] # b_input[2]
    /\ b_outcomes = <<"failed", "ok">>
    /\ b_results[1] = ZeroVector
    /\ b_results[2] = Embedding(b_input[2])

\* C30: a zero vector stands in only for an item whose embedding failed for
\* a reason other than quota; when the retries of an item are exhausted by
\* quota errors the batch does not go on with a zero vector in its place.
C30_ZeroVectorOnlyForOtherErrors ==
    (/\ b_impl = "manager"
     /\ b_pc \in {"loop", "returned"}
     /\ b_outcomes # <<>>
     /\ b_outcomes[Len(b_outcomes)] = "failed") =>
        /\ ~IsNone(e_error)
        /\ e_error # Some(ExhaustedMsg(Len(api_keys)))

\* the rotations the call under way or just finished has made: one for each
\* remote call of it that was followed by another
RotationsMade == IF e_pc = "loop" THEN Len(e_log) ELSE Len(e_log) - 1

\* the remote call of this step ended in a quota failure short of the last
\* attempt
QuotaFailureStep ==
    /\ e_pc = "loop"
    /\ e_pc' = "loop"
    /\ e_log'[Len(e_log')].kind = "quota"

\* C34: the rotation state persists across operations and is changed only by
\* quota failures. Entering embed_content_with_retry, collecting an item and
\* starting a batch leave current_key_index and the configured credential as
\* they are; inside a call they change only on a quota failure that is
\* retried, by one position; so a call that succeeds on its first attempt
\* leaves both unchanged, and a call that rotated r times leaves the index r
\* positions on modulo the pool size, where the next call finds it.
C34_RotationStatePersists ==
    /\ [][(km = "ready" /\ e_pc # "loop") =>
             UNCHANGED <<current_key_index, configured_key>>]_vars
    /\ [][(km = "ready" /\ e_pc = "loop") =>
             IF QuotaFailureStep
             THEN /\ current_key_index' = (current_key_index + 1) % PoolSize
                  /\ configured_key' = api_keys[current_key_index' + 1]
             ELSE UNCHANGED <<current_key_index, configured_key>>]_vars
    /\ []((km = "ready" /\ e_log # <<>>) =>
             current_key_index = (e_log[1].index + RotationsMade) % PoolSize)
    /\ []((e_pc = "returned" /\ Len(e_log) = 1) =>
             /\ current_key_index = e_log[1].index
             /\ configured_key = e_log[1].key)

\* a batch of two texts on a fresh manager: the first item took the one
\* rotation made so far, and the call for the second item has succeeded on
\* its first attempt with the second credential, where the index still is
C34_Witness ==
    /\ b_impl = "manager"
    /\ Len(b_input) = 2
    /\ b_pc = "item"
    /\ b_i = 2
    /\ b_outcomes = <<"ok">>
    /\ PoolSize >= 2
    /\ key_hist = <<api_keys[1], api_keys[2]>>
    /\ e_pc = "returned"
    /\ Len(e_log) = 1
    /\ e_log[1].index = 1
    /\ e_log[1].key = api_keys[2]
    /\ current_key_index = 1
    /\ configured_key = api_keys[2]

====
